---- MODULE Spec2Model ----
(***************************************************************************)
(* Model of the User-Portal request executor                               *)
(* (src/User-Portal/Backend/api_executor.py, execute_query) and of the     *)
(* workflow around it (query_generator.py, openai_processor.py, main.py).  *)
(*                                                                         *)
(* Text is modelled as a sequence of one-character strings, so that        *)
(* lower(), the "in" substring test, str(), json.dumps() and quote() are   *)
(* computed character by character as the Python code computes them.       *)
(* One outbound request is one call of client.get: the redirect hops that  *)
(* httpx follows inside that call are below this level of description.     *)
(***************************************************************************)
EXTENDS Integers, Sequences, FiniteSets, TLC

VARIABLES
  collection,    \* the agent collection: a set of agent documents
  agent_name,  \* argument of execute_query
  query,       \* argument of execute_query: the query intent, a dict
  pc,          \* position of the call of execute_query
  endpoint,    \* agent["endpoint"], <<>> until it is read
  branch,      \* the branch taken at  if is_odata or has_odata_structure
  requests,    \* the requests handed to client.get, in order
  responses,   \* what client.get produced for each of them, in order
  result,      \* <<api_results>> once returned, <<>> before
  error,       \* the exception execute_query raised, NoExc when none
  logged,      \* the logger.error messages of the call, in order
  calls,       \* how many calls of execute_query the service has made
  cq,              \* position of the handler complete_query
  http,            \* the HTTP answer of complete_query: status, detail of
                   \* the HTTPException, and <<response, generated_query,
                   \* api_results>> of the returned dict
  gpc,             \* position of the call of generate_query
  gerror,          \* the exception generate_query raised, NoExc when none
  llm_reply,       \* <<message.content>> of the generation call, <<>> before
  generated_query, \* <<generated_query>> once returned, <<>> before
  fpc,             \* position of the call of generate_final_response
  ferror,          \* the exception generate_final_response raised
  final_response,  \* <<final_response>> once returned, <<>> before
  llm_calls,       \* the calls of chat.completions.create, in order
  gagent,          \* <<agent>> as generate_query read it, <<>> before
  fagent,          \* <<agent>> as generate_final_response read it
  conc,            \* the locals of each of the concurrent calls of
                   \* complete_query, <<>> when one call is followed alone
  admin            \* the locals of each request to the Admin portal, <<>>
                   \* when the Admin portal is left out

\* the state of the complete-query workflow around execute_query
wf_vars == <<cq, http, gpc, gerror, llm_reply, generated_query, fpc, ferror,
             final_response, llm_calls, gagent, fagent>>

vars == <<collection, agent_name, query, pc, endpoint, branch, requests,
          responses, result, error, logged, calls, wf_vars, conc, admin>>

(***************************************************************************)
(* Text helpers                                                            *)
(***************************************************************************)
UpperLetters ==
  <<"A","B","C","D","E","F","G","H","I","J","K","L","M",
    "N","O","P","Q","R","S","T","U","V","W","X","Y","Z">>

LowerLetters ==
  <<"a","b","c","d","e","f","g","h","i","j","k","l","m",
    "n","o","p","q","r","s","t","u","v","w","x","y","z">>

Digits ==
  {"0","1","2","3","4","5","6","7","8","9"}

\* str.lower() on one character
LowerChar(c) ==
  IF \E i \in 1..26 : UpperLetters[i] = c
    THEN LowerLetters[CHOOSE i \in 1..26 : UpperLetters[i] = c]
    ELSE c

\* str.lower()
Lower(s) ==
  [i \in 1..Len(s) |-> LowerChar(s[i])]

\* Python's  sub in s  on text
Contains(s, sub) ==
  \E i \in 0..(Len(s) - Len(sub)) :
    \A j \in 1..Len(sub) : s[i + j] = sub[j]

\* str.rstrip("/")
RECURSIVE RStripSlash(_)
RStripSlash(s) ==
  IF Len(s) > 0 /\ s[Len(s)] = "/"
    THEN RStripSlash(SubSeq(s, 1, Len(s) - 1))
    ELSE s

\* sep.join(parts)
RECURSIVE Join(_, _)
Join(sep, parts) ==
  IF parts = <<>> THEN <<>>
  ELSE IF Len(parts) = 1 THEN parts[1]
  ELSE parts[1] \o sep \o Join(sep, Tail(parts))

(***************************************************************************)
(* urllib.parse.quote                                                      *)
(***************************************************************************)
\* characters quote() never encodes: letters, digits and "_.-~"
AlwaysSafe ==
  {UpperLetters[i] : i \in 1..26} \cup {LowerLetters[i] : i \in 1..26}
    \cup Digits \cup {"_", ".", "-", "~"}

\* the grave accent (U+0060), which a TLA+ string cannot hold: the one
\* character of the alphabet that is written as a name
Backtick ==
  "BACKTICK"

\* %XX of an ASCII character that is not always safe
PctCode(c) ==
  CASE c = " "  -> <<"%","2","0">>
    [] c = Backtick -> <<"%","6","0">>
    [] c = "!"  -> <<"%","2","1">>
    [] c = "\"" -> <<"%","2","2">>
    [] c = "#"  -> <<"%","2","3">>
    [] c = "$"  -> <<"%","2","4">>
    [] c = "%"  -> <<"%","2","5">>
    [] c = "&"  -> <<"%","2","6">>
    [] c = "'"  -> <<"%","2","7">>
    [] c = "("  -> <<"%","2","8">>
    [] c = ")"  -> <<"%","2","9">>
    [] c = "*"  -> <<"%","2","A">>
    [] c = "+"  -> <<"%","2","B">>
    [] c = ","  -> <<"%","2","C">>
    [] c = "/"  -> <<"%","2","F">>
    [] c = ":"  -> <<"%","3","A">>
    [] c = ";"  -> <<"%","3","B">>
    [] c = "<"  -> <<"%","3","C">>
    [] c = "="  -> <<"%","3","D">>
    [] c = ">"  -> <<"%","3","E">>
    [] c = "?"  -> <<"%","3","F">>
    [] c = "@"  -> <<"%","4","0">>
    [] c = "["  -> <<"%","5","B">>
    [] c = "]"  -> <<"%","5","D">>
    [] c = "{"  -> <<"%","7","B">>
    [] c = "|"  -> <<"%","7","C">>
    [] c = "}"  -> <<"%","7","D">>

\* quote(s, safe=safe); safe is the set of characters of the safe argument
RECURSIVE Quote(_, _)
Quote(s, safe) ==
  IF s = <<>> THEN <<>>
  ELSE (IF Head(s) \in AlwaysSafe \cup safe
          THEN <<Head(s)>>
          ELSE PctCode(Head(s))) \o Quote(Tail(s), safe)

\* the default safe argument of quote()
DefaultSafe ==
  {"/"}

(***************************************************************************)
(* Python values of a query intent                                         *)
(*   t = "str"  : s is the text                                            *)
(*   t = "int"  : s is the decimal text of the number                      *)
(*   t = "null" : None                                                     *)
(*   t = "dict" : items is a sequence of <<key text, value>>               *)
(*   t = "list" : items is a sequence of values                            *)
(***************************************************************************)
StrVal(s) ==
  [t |-> "str", s |-> s, items |-> <<>>]

IntVal(s) ==
  [t |-> "int", s |-> s, items |-> <<>>]

NoneVal ==
  [t |-> "null", s |-> <<>>, items |-> <<>>]

DictVal(items) ==
  [t |-> "dict", s |-> <<>>, items |-> items]

ListVal(items) ==
  [t |-> "list", s |-> <<>>, items |-> items]

\* truth value of a Python object, as tested by  a or b  and  if not a
Truthy(v) ==
  CASE v.t = "str"  -> v.s # <<>>
    [] v.t = "int"  -> v.s # <<"0">>
    [] v.t = "null" -> FALSE
    [] v.t = "dict" -> v.items # <<>>
    [] v.t = "list" -> v.items # <<>>

\* isinstance(value, (str, int, float, bool))
IsScalar(v) ==
  v.t \in {"str", "int"}

\* repr() of a str: single quotes, double quotes when the text holds a
\* single quote and no double quote (escape sequences are outside the
\* alphabet of the model)
ReprStr(s) ==
  IF (\E i \in 1..Len(s) : s[i] = "'") /\ ~(\E i \in 1..Len(s) : s[i] = "\"")
    THEN <<"\"">> \o s \o <<"\"">>
    ELSE <<"'">> \o s \o <<"'">>

RECURSIVE PyRepr(_), PyReprItems(_), PyReprElems(_)
\* repr(value), which str(dict) applies to every key and value
PyRepr(v) ==
  CASE v.t = "str"  -> ReprStr(v.s)
    [] v.t = "int"  -> v.s
    [] v.t = "null" -> <<"N","o","n","e">>
    [] v.t = "dict" -> <<"{">> \o Join(<<",", " ">>, PyReprItems(v.items)) \o <<"}">>
    [] v.t = "list" -> <<"[">> \o Join(<<",", " ">>, PyReprElems(v.items)) \o <<"]">>

PyReprItems(items) ==
  IF items = <<>> THEN <<>>
  ELSE <<ReprStr(items[1][1]) \o <<":", " ">> \o PyRepr(items[1][2])>>
         \o PyReprItems(Tail(items))

PyReprElems(items) ==
  IF items = <<>> THEN <<>>
  ELSE <<PyRepr(items[1])>> \o PyReprElems(Tail(items))

\* str(value): the text itself for a str, repr() for everything else
PyStr(v) ==
  IF v.t = "str" THEN v.s ELSE PyRepr(v)

RECURSIVE JsonDumps(_), JsonItems(_), JsonElems(_)
\* json.dumps(value) with the default separators
JsonDumps(v) ==
  CASE v.t = "str"  -> <<"\"">> \o v.s \o <<"\"">>
    [] v.t = "int"  -> v.s
    [] v.t = "null" -> <<"n","u","l","l">>
    [] v.t = "dict" -> <<"{">> \o Join(<<",", " ">>, JsonItems(v.items)) \o <<"}">>
    [] v.t = "list" -> <<"[">> \o Join(<<",", " ">>, JsonElems(v.items)) \o <<"]">>

JsonItems(items) ==
  IF items = <<>> THEN <<>>
  ELSE <<<<"\"">> \o items[1][1] \o <<"\"", ":", " ">> \o JsonDumps(items[1][2])>>
         \o JsonItems(Tail(items))

JsonElems(items) ==
  IF items = <<>> THEN <<>>
  ELSE <<JsonDumps(items[1])>> \o JsonElems(Tail(items))

(***************************************************************************)
(* dict operations on the intent (a dict value)                            *)
(***************************************************************************)
\* key in query
HasKey(q, k) ==
  \E i \in 1..Len(q.items) : q.items[i][1] = k

\* query[key]
Item(q, k) ==
  q.items[CHOOSE i \in 1..Len(q.items) : q.items[i][1] = k][2]

\* query.get(key)
Get(q, k) ==
  IF HasKey(q, k) THEN Item(q, k) ELSE NoneVal

(***************************************************************************)
(* Text constants of the code                                              *)
(***************************************************************************)
T_entity_set == <<"e","n","t","i","t","y","_","s","e","t">>
T_type       == <<"t","y","p","e">>
T_filter     == <<"f","i","l","t","e","r">>
T_dfilter    == <<"$","f","i","l","t","e","r">>
T_top        == <<"t","o","p">>
T_size       == <<"s","i","z","e">>
T_skip       == <<"s","k","i","p">>
T_from       == <<"f","r","o","m">>
T_select     == <<"s","e","l","e","c","t">>
T_orderby    == <<"o","r","d","e","r","b","y">>
T_expand     == <<"e","x","p","a","n","d">>
T_query      == <<"q","u","e","r","y">>
T_odata_seg  == <<"/","o","d","a","t","a","/">>
T_odata      == <<"o","d","a","t","a">>

\* the characters of a text, as the safe argument of quote()
Chars(s) ==
  {s[i] : i \in 1..Len(s)}

\* FilterSafe as the default safe argument of quote()
FilterSafe_Default ==
  {"/"}

\* safe="'(),andorgelegtlteqnecontainsstartswithendswith"
FilterSafe ==
  {"'", "(", ")", ","} \cup
  Chars(<<"a","n","d","o","r","g","e","l","e","g","t","l","t","e","q","n","e",
          "c","o","n","t","a","i","n","s","s","t","a","r","t","s","w","i","t","h",
          "e","n","d","s","w","i","t","h">>)


(***************************************************************************)
(* Exceptions                                                              *)
(*   type   : the Python class                                             *)
(*   text   : str(e), as the sequence of message fragments it is built of  *)
(*   status : the status code carried by the message, 0 when there is none *)
(***************************************************************************)
Exc(type, text, status) ==
  [type |-> type, text |-> text, status |-> status]

NoExc ==
  Exc("none", <<>>, 0)

\* the classes an exception of the given class is an instance of
Supers(type) ==
  CASE type = "JSONDecodeError"  -> {"JSONDecodeError", "ValueError", "Exception"}
    [] type = "ValueError"       -> {"ValueError", "Exception"}
    [] type = "TypeError"        -> {"TypeError", "Exception"}
    [] type = "HTTPStatusError"  -> {"HTTPStatusError", "Exception"}
    [] type = "TimeoutException" -> {"TimeoutException", "RequestError", "Exception"}
    [] type = "ConnectError"     -> {"ConnectError", "RequestError", "Exception"}
    [] type = "APIError"         -> {"APIError", "Exception"}
    [] type = "Exception"        -> {"Exception"}

\* what an  except cls  clause tests
IsInstance(e, cls) ==
  cls \in Supers(e.type)

\* the exception a handler lets out, and what it logs with logger.error
Handled(e, logs) ==
  [exc |-> e, logs |-> logs]

\* the except clauses of the OData block
InnerExcept(e) ==
  IF IsInstance(e, "ValueError")
    THEN Handled(e, <<"OData query configuration error">>)
  ELSE IF IsInstance(e, "HTTPStatusError")
    THEN Handled(Exc("Exception",
                     <<"OData API request failed with status">> \o e.text,
                     e.status),
                 <<"OData GET HTTP error">>)
  ELSE IF IsInstance(e, "RequestError")
    THEN Handled(Exc("Exception", <<"OData API connection error">> \o e.text, 0),
                 <<"OData GET request error">>)
  ELSE Handled(e, <<>>)

\* the except clauses of the outer try of execute_query
OuterExcept(e) ==
  IF IsInstance(e, "HTTPStatusError")
    THEN Handled(Exc("Exception", <<"API request failed with status">>, e.status),
                 <<"API HTTP Error">>)
  ELSE IF IsInstance(e, "TimeoutException")
    THEN Handled(Exc("Exception", <<"API request timed out">>, 0),
                 <<"API request timed out after 30 seconds">>)
  ELSE Handled(Exc("Exception", <<"Error executing API query">> \o e.text, e.status),
               <<"Error executing API query">>)

\* an exception raised inside the OData block passes the inner clauses, and
\* what they raise passes the outer ones
ODataRaise(e) ==
  LET in == InnerExcept(e)
      out == OuterExcept(in.exc)
  IN  Handled(out.exc, in.logs \o out.logs)

\* an exception raised in the generic part passes the outer clauses only
GenericRaise(e) ==
  OuterExcept(e)

(***************************************************************************)
(* Responses of the remote server                                          *)
(***************************************************************************)
\* client.get returned a response
Response(status, body) ==
  [kind |-> "response", status |-> status, body |-> body]

\* client.get raised httpx.TimeoutException after timeout=30.0
TimedOut ==
  [kind |-> "timeout", status |-> 0, body |-> <<>>]

\* client.get raised another httpx.RequestError (connection refused, DNS)
ConnectFailed ==
  [kind |-> "connect", status |-> 0, body |-> <<>>]

\* the characters str.strip() removes, within the alphabet of the model
Whitespace ==
  {" ", "\t", "\n", "\r"}

RECURSIVE LStrip(_)
LStrip(s) ==
  IF s # <<>> /\ s[1] \in Whitespace THEN LStrip(Tail(s)) ELSE s

RECURSIVE RStrip(_)
RStrip(s) ==
  IF s # <<>> /\ s[Len(s)] \in Whitespace
    THEN RStrip(SubSeq(s, 1, Len(s) - 1)) ELSE s

\* str.strip()
Strip(s) ==
  RStrip(LStrip(s))

\* a JSON string without escape sequences
IsJsonString(t) ==
  /\ Len(t) >= 2
  /\ t[1] = "\"" /\ t[Len(t)] = "\""
  /\ \A i \in 2..(Len(t) - 1) : t[i] \notin {"\"", "\\", "\n", "\r", "\t"}

\* the text between the quotes of a JSON string
JsonStringText(t) ==
  SubSeq(t, 2, Len(t) - 1)

\* the positions of the colon of a JSON object with one string member
MemberColons(t) ==
  { i \in 2..(Len(t) - 1) :
      /\ t[i] = ":"
      /\ IsJsonString(Strip(SubSeq(t, 2, i - 1)))
      /\ IsJsonString(Strip(SubSeq(t, i + 1, Len(t) - 1))) }

\* a JSON object with one member whose value is a string
IsJsonMember(t) ==
  /\ Len(t) >= 2
  /\ t[1] = "{" /\ t[Len(t)] = "}"
  /\ MemberColons(t) # {}

\* response.json() and json.loads(): the decoded value, for the JSON texts
\* the model sends
IsJson(body) ==
  \/ body = <<"{", "}">>
  \/ body = <<"[", "]">>
  \/ body = <<"n","u","l","l">>
  \/ (body # <<>> /\ \A i \in 1..Len(body) : body[i] \in Digits)
  \/ IsJsonMember(body)

JsonLoads(body) ==
  CASE body = <<"{", "}">>          -> DictVal(<<>>)
    [] body = <<"[", "]">>          -> ListVal(<<>>)
    [] body = <<"n","u","l","l">>   -> NoneVal
    [] IsJsonMember(body)           ->
         LET i == CHOOSE c \in MemberColons(body) : TRUE
         IN  DictVal(<< <<JsonStringText(Strip(SubSeq(body, 2, i - 1))),
                          StrVal(JsonStringText(Strip(SubSeq(body, i + 1, Len(body) - 1))))>> >>)
    [] OTHER                        -> IntVal(body)

\* response.raise_for_status(): raises unless the status is 2xx
RaiseForStatusRaises(status) ==
  ~(status >= 200 /\ status <= 299)


(***************************************************************************)
(* Classification of the request                                           *)
(***************************************************************************)
\* is_odata = "/odata/" in endpoint.lower()
is_odata(ep) ==
  Contains(Lower(ep), T_odata_seg)

\* has_odata_structure =
\*   "entity_set" in query or "$filter" in str(query) or "filter" in query
has_odata_structure(q) ==
  \/ HasKey(q, T_entity_set)
  \/ Contains(PyStr(q), T_dfilter)
  \/ HasKey(q, T_filter)

\* if is_odata or has_odata_structure:
TakesODataPath(ep, q) ==
  is_odata(ep) \/ has_odata_structure(q)

(***************************************************************************)
(* Construction of the OData request                                       *)
(***************************************************************************)
\* entity_set with the two keys tried in the opposite order
entity_set_TypeFirst(q) ==
  IF Truthy(Get(q, T_type)) THEN Get(q, T_type) ELSE Get(q, T_entity_set)

\* entity_set = query.get("entity_set") or query.get("type")
entity_set(q) ==
  IF Truthy(Get(q, T_entity_set)) THEN Get(q, T_entity_set) ELSE Get(q, T_type)

\* the keys whose values go through quote(), in the order of the code
QuotedKeys ==
  <<T_filter, T_select, T_orderby, T_expand>>

\* quote() raises TypeError on a value that is not a str
QuoteRaises(q) ==
  \E i \in 1..Len(QuotedKeys) :
    HasKey(q, QuotedKeys[i]) /\ Item(q, QuotedKeys[i]).t # "str"

\* one  $name=value  part, or nothing when the key is absent
Part(present, name, value) ==
  IF present THEN <<(<<"$">> \o name \o <<"=">> \o value)>> ELSE <<>>

\* odata_parts with $top and $skip put before $filter
odata_parts_PagingFirst(q) ==
  (IF HasKey(q, T_top) THEN Part(TRUE, T_top, PyStr(Item(q, T_top)))
   ELSE Part(HasKey(q, T_size), T_top, PyStr(Get(q, T_size))))
  \o (IF HasKey(q, T_skip) THEN Part(TRUE, T_skip, PyStr(Item(q, T_skip)))
      ELSE Part(HasKey(q, T_from), T_skip, PyStr(Get(q, T_from))))
  \o Part(HasKey(q, T_filter), T_filter, Quote(Get(q, T_filter).s, FilterSafe))
  \o Part(HasKey(q, T_select), T_select, Quote(Get(q, T_select).s, {","}))
  \o Part(HasKey(q, T_orderby), T_orderby,
          Quote(Get(q, T_orderby).s, {" ", ",", "d", "e", "s", "a", "c"}))
  \o Part(HasKey(q, T_expand), T_expand, Quote(Get(q, T_expand).s, {",", "/"}))

\* odata_parts with the aliases size and from tried before top and skip
odata_parts_AliasFirst(q) ==
  Part(HasKey(q, T_filter), T_filter, Quote(Get(q, T_filter).s, FilterSafe))
  \o (IF HasKey(q, T_size) THEN Part(TRUE, T_top, PyStr(Item(q, T_size)))
      ELSE Part(HasKey(q, T_top), T_top, PyStr(Get(q, T_top))))
  \o (IF HasKey(q, T_from) THEN Part(TRUE, T_skip, PyStr(Item(q, T_from)))
      ELSE Part(HasKey(q, T_skip), T_skip, PyStr(Get(q, T_skip))))
  \o Part(HasKey(q, T_select), T_select, Quote(Get(q, T_select).s, {","}))
  \o Part(HasKey(q, T_orderby), T_orderby,
          Quote(Get(q, T_orderby).s, {" ", ",", "d", "e", "s", "a", "c"}))
  \o Part(HasKey(q, T_expand), T_expand, Quote(Get(q, T_expand).s, {",", "/"}))

\* odata_parts
odata_parts(q) ==
  Part(HasKey(q, T_filter), T_filter, Quote(Get(q, T_filter).s, FilterSafe))
  \o (IF HasKey(q, T_top) THEN Part(TRUE, T_top, PyStr(Item(q, T_top)))
      ELSE Part(HasKey(q, T_size), T_top, PyStr(Get(q, T_size))))
  \o (IF HasKey(q, T_skip) THEN Part(TRUE, T_skip, PyStr(Item(q, T_skip)))
      ELSE Part(HasKey(q, T_from), T_skip, PyStr(Get(q, T_from))))
  \o Part(HasKey(q, T_select), T_select, Quote(Get(q, T_select).s, {","}))
  \o Part(HasKey(q, T_orderby), T_orderby,
          Quote(Get(q, T_orderby).s, {" ", ",", "d", "e", "s", "a", "c"}))
  \o Part(HasKey(q, T_expand), T_expand, Quote(Get(q, T_expand).s, {",", "/"}))

\* full_url
full_url(ep, q) ==
  LET entity_url == RStripSlash(ep) \o <<"/">> \o PyStr(entity_set(q))
  IN  IF odata_parts(q) # <<>>
        THEN entity_url \o <<"?">> \o Join(<<"&">>, odata_parts(q))
        ELSE entity_url

\* the exception raised while the OData request is built, NoExc when none
ODataBuildError(q) ==
  IF ~Truthy(entity_set(q))
    THEN Exc("ValueError", <<"OData query must include 'entity_set' or 'type' field">>, 0)
  ELSE IF QuoteRaises(q)
    THEN Exc("TypeError", <<"quote_from_bytes() expected bytes">>, 0)
  ELSE NoExc

(***************************************************************************)
(* Construction of the generic request                                     *)
(***************************************************************************)
\* ListParams with a list that holds a non-scalar element sent as one
\* parameter, the JSON serialization of the whole list
ListParams_WholeJson(key, elems) ==
  IF \A i \in 1..Len(elems) : IsScalar(elems[i])
    THEN [i \in 1..Len(elems) |-> key \o <<"=">> \o Quote(PyStr(elems[i]), DefaultSafe)]
    ELSE <<key \o <<"=">> \o Quote(JsonDumps(ListVal(elems)), DefaultSafe)>>

\* ListParams with the elements put in unencoded
RECURSIVE ListParams_Unquoted(_, _)
ListParams_Unquoted(key, elems) ==
  IF elems = <<>> THEN <<>>
  ELSE <<key \o <<"=">> \o
           (IF IsScalar(elems[1]) THEN PyStr(elems[1]) ELSE JsonDumps(elems[1]))>>
         \o ListParams_Unquoted(key, Tail(elems))

\* the parameters one list value contributes
RECURSIVE ListParams(_, _)
ListParams(key, elems) ==
  IF elems = <<>> THEN <<>>
  ELSE <<key \o <<"=">> \o
           (IF IsScalar(elems[1])
              THEN Quote(PyStr(elems[1]), DefaultSafe)
              ELSE Quote(JsonDumps(elems[1]), DefaultSafe))>>
         \o ListParams(key, Tail(elems))

\* params with str() in place of json.dumps() for a nested dict
RECURSIVE params_StrOfDict(_)
params_StrOfDict(items) ==
  IF items = <<>> THEN <<>>
  ELSE LET key == items[1][1]
           value == items[1][2]
       IN  (CASE IsScalar(value) \/ value.t = "dict" ->
                   <<key \o <<"=">> \o Quote(PyStr(value), DefaultSafe)>>
              [] value.t = "list" -> ListParams(key, value.items)
              [] OTHER -> <<>>)
           \o params_StrOfDict(Tail(items))

\* params, over query.items() in order
RECURSIVE params(_)
params(items) ==
  IF items = <<>> THEN <<>>
  ELSE LET key == items[1][1]
           value == items[1][2]
       IN  (CASE IsScalar(value) ->
                   <<key \o <<"=">> \o Quote(PyStr(value), DefaultSafe)>>
              [] value.t = "dict" ->
                   <<key \o <<"=">> \o Quote(JsonDumps(value), DefaultSafe)>>
              [] value.t = "list" -> ListParams(key, value.items)
              [] OTHER -> <<>>)
           \o params(Tail(items))

\* get_url
get_url(ep, q) ==
  IF Truthy(q) /\ params(q.items) # <<>>
    THEN ep \o <<"?">> \o Join(<<"&">>, params(q.items))
    ELSE ep

\* an outbound request, as handed to the HTTP client
Request(method, url, body) ==
  [method |-> method, url |-> url, body |-> body]


(***************************************************************************)
(* Bounded inputs                                                          *)
(***************************************************************************)
\* endpoints: with the /odata/ segment in two letter cases, with odata but
\* without the segment's slashes, and without odata
Endpoints ==
  { <<"h","/","o","d","a","t","a","/">>,
    <<"h","/","O","D","a","t","a","/","v","4">>,
    <<"h","/","o","d","a","t","a">>,
    <<"o","d","a","t","a",".","h","/","v","1">>,
    <<"h","/","a","p","i">>,
    <<"h","/","a","p","i","/">> }

AgentNames ==
  {"a1", "a2"}

\* the collection holds no agent, or the agent a1 with one of the endpoints
Collections ==
  {{}} \cup {{[name |-> "a1", endpoint |-> ep]} : ep \in Endpoints}

\* marks a key the intent does not have
Absent ==
  [t |-> "absent", s |-> <<>>, items |-> <<>>]

OptItem(k, v) ==
  IF v = Absent THEN <<>> ELSE << <<k, v>> >>

\* entity_set: absent, null, empty, and a name
EntitySetChoices ==
  {Absent, NoneVal, StrVal(<<>>), StrVal(<<"E">>)}

\* type: absent, empty, and a name
TypeChoices ==
  {Absent, StrVal(<<>>), StrVal(<<"T">>)}

FilterChoices ==
  {Absent, StrVal(<<"a"," ","e","q"," ","1">>)}

\* query: a nested object, with and without the text $filter inside
QueryChoices ==
  {Absent,
   DictVal(<< <<(<<"m">>), StrVal(<<"x">>)>> >>),
   DictVal(<< <<(<<"m">>), StrVal(T_dfilter)>> >>)}

\* q: a scalar, with and without the text $filter
QChoices ==
  {Absent, StrVal(<<"a"," ","b">>), StrVal(T_dfilter)}

Intents ==
  { DictVal(OptItem(T_entity_set, es) \o OptItem(T_type, ty)
            \o OptItem(T_filter, fi) \o OptItem(T_query, qu)
            \o OptItem(<<"q">>, qq)) :
      es \in EntitySetChoices, ty \in TypeChoices, fi \in FilterChoices,
      qu \in QueryChoices, qq \in QChoices }

Statuses ==
  {200, 201, 400, 404, 405, 500}

Bodies ==
  { <<"{", "}">>, <<"7">>, <<"o","o","p","s">> }

Outcomes ==
  {Response(st, b) : st \in Statuses, b \in Bodies}
    \cup {TimedOut, ConnectFailed}

\* the number of calls of execute_query the model follows
MaxCalls ==
  2

(***************************************************************************)
(* execute_query                                                           *)
(***************************************************************************)
\* the exception client.get raises, NoExc when it returns a response
TransportError(out) ==
  CASE out.kind = "timeout" -> Exc("TimeoutException", <<"str(TimeoutException)">>, 0)
    [] out.kind = "connect" -> Exc("ConnectError", <<"str(ConnectError)">>, 0)
    [] OTHER -> NoExc

\* the exception raised in the OData block once client.get is over, NoExc
\* when the block returns api_results
ODataRaised(out) ==
  IF out.kind # "response" THEN TransportError(out)
  ELSE IF out.status = 200
    THEN (IF IsJson(out.body) THEN NoExc
          ELSE Exc("JSONDecodeError", <<"str(JSONDecodeError)">>, 0))
  ELSE IF out.status = 400
    THEN Exc("Exception", <<"OData API returned 400 Bad Request">>, 400)
  ELSE IF out.status = 404
    THEN Exc("Exception", <<"OData endpoint or entity set not found (404)">>, 404)
  ELSE Exc("Exception", <<"OData API returned status">>, out.status)

\* ODataExit with the rejected statuses other than 400 and 404 falling out of
\* the block to the generic request
ODataExit_FallsThrough(out) ==
  IF ODataRaised(out) = NoExc THEN "return"
  ELSE IF out.kind = "response" /\ out.status \notin {400, 404} THEN "fall"
  ELSE "raise"

\* ODataExit with status 400 falling out of the block to the generic request
ODataExit_400Falls(out) ==
  IF ODataRaised(out) = NoExc THEN "return"
  ELSE IF out.kind = "response" /\ out.status = 400 THEN "fall"
  ELSE "raise"

\* how control leaves the OData block: every branch returns or raises, none
\* falls out of the block to the generic request below it
ODataExit(out) ==
  IF ODataRaised(out) = NoExc THEN "return" ELSE "raise"

\* the exception raised in the generic part once client.get is over
GenericRaised(out) ==
  IF out.kind # "response" THEN TransportError(out)
  ELSE IF RaiseForStatusRaises(out.status)
    THEN Exc("HTTPStatusError", <<"str(HTTPStatusError)">>, out.status)
  ELSE IF ~IsJson(out.body)
    THEN Exc("JSONDecodeError", <<"str(JSONDecodeError)">>, 0)
  ELSE NoExc

\* GenericExit with one repetition of the request after a 405
GenericExit_Retries(out) ==
  IF GenericRaised(out) = NoExc THEN "return"
  ELSE IF out.kind = "response" /\ out.status = 405 /\ Len(requests) < 2 THEN "retry"
  ELSE "raise"

\* how control leaves the generic part: it returns or raises, it never
\* issues the request again
GenericExit(out) ==
  IF GenericRaised(out) = NoExc THEN "return" ELSE "raise"

\* execute_query called on its own: no workflow is in progress
WorkflowIdle ==
  /\ cq = "none"
  /\ http = [status |-> 0, detail |-> <<>>, body |-> <<>>]
  /\ gpc = "Idle"
  /\ gerror = NoExc
  /\ llm_reply = <<>>
  /\ generated_query = <<>>
  /\ fpc = "Idle"
  /\ ferror = NoExc
  /\ final_response = <<>>
  /\ llm_calls = <<>>
  /\ gagent = <<>>
  /\ fagent = <<>>

Init ==
  /\ collection \in Collections
  /\ agent_name \in AgentNames
  /\ query \in Intents
  /\ pc = "Initial"
  /\ endpoint = <<>>
  /\ branch = "none"
  /\ requests = <<>>
  /\ responses = <<>>
  /\ result = <<>>
  /\ error = NoExc
  /\ logged = <<>>
  /\ calls = 1
  /\ WorkflowIdle
  /\ conc = <<>>
  /\ admin = <<>>

\* execute_query ends by raising
Fail(h) ==
  /\ pc' = "Failed"
  /\ error' = h.exc
  /\ logged' = logged \o h.logs

\* execute_query ends by returning api_results
Succeed(value) ==
  /\ pc' = "Succeeded"
  /\ result' = <<value>>

\* agent = get_agent_by_name(agent_name); endpoint = agent["endpoint"]
get_agent_by_name ==
  /\ pc = "Initial"
  /\ IF \E a \in collection : a.name = agent_name
       THEN /\ \E a \in collection :
                 /\ a.name = agent_name
                 /\ endpoint' = a.endpoint
            /\ pc' = "Dispatch"
            /\ UNCHANGED <<error, logged>>
       ELSE /\ Fail(Handled(Exc("ValueError", <<"Agent not found">>, 0), <<>>))
            /\ UNCHANGED endpoint
  /\ UNCHANGED <<collection, agent_name, query, branch, requests, responses,
                 result, calls>>
  /\ UNCHANGED wf_vars
  /\ UNCHANGED <<conc, admin>>

\* the OData block up to  await client.get(full_url, ...)
ODataRequest ==
  /\ pc = "Dispatch"
  /\ TakesODataPath(endpoint, query)
  /\ branch' = "OData"
  /\ IF ODataBuildError(query) # NoExc
       THEN /\ Fail(ODataRaise(ODataBuildError(query)))
            /\ UNCHANGED requests
       ELSE /\ requests' = Append(requests,
                                  Request("GET", full_url(endpoint, query), NoneVal))
            /\ pc' = "AwaitOData"
            /\ UNCHANGED <<error, logged>>
  /\ UNCHANGED <<collection, agent_name, query, endpoint, responses, result,
                 calls>>
  /\ UNCHANGED wf_vars
  /\ UNCHANGED <<conc, admin>>

\* the OData block from the end of client.get on
ODataResponse ==
  /\ pc = "AwaitOData"
  /\ \E out \in Outcomes :
       /\ responses' = Append(responses, out)
       /\ CASE ODataExit(out) = "return" ->
                 /\ Succeed(JsonLoads(out.body))
                 /\ UNCHANGED <<error, logged>>
            [] ODataExit(out) = "raise" ->
                 /\ Fail(ODataRaise(ODataRaised(out)))
                 /\ UNCHANGED result
            [] OTHER ->
                 /\ pc' = "Generic"
                 /\ UNCHANGED <<result, error, logged>>
  /\ UNCHANGED <<collection, agent_name, query, endpoint, branch, requests,
                 calls>>
  /\ UNCHANGED wf_vars
  /\ UNCHANGED <<conc, admin>>

\* the generic part up to  await client.get(get_url, ...)
GenericRequest ==
  /\ \/ pc = "Dispatch" /\ ~TakesODataPath(endpoint, query) /\ branch' = "Generic"
     \/ pc = "Generic" /\ UNCHANGED branch
  /\ requests' = Append(requests,
                        Request("GET", get_url(endpoint, query), NoneVal))
  /\ pc' = "AwaitGeneric"
  /\ UNCHANGED <<collection, agent_name, query, endpoint, responses, result,
                 error, logged, calls>>
  /\ UNCHANGED wf_vars
  /\ UNCHANGED <<conc, admin>>

\* the generic part from the end of client.get on
GenericResponse ==
  /\ pc = "AwaitGeneric"
  /\ \E out \in Outcomes :
       /\ responses' = Append(responses, out)
       /\ CASE GenericExit(out) = "return" ->
                 /\ Succeed(JsonLoads(out.body))
                 /\ UNCHANGED <<error, logged>>
            [] GenericExit(out) = "raise" ->
                 /\ Fail(GenericRaise(GenericRaised(out)))
                 /\ UNCHANGED result
            [] OTHER ->
                 /\ pc' = "Generic"
                 /\ UNCHANGED <<result, error, logged>>
  /\ UNCHANGED <<collection, agent_name, query, endpoint, branch, requests,
                 calls>>
  /\ UNCHANGED wf_vars
  /\ UNCHANGED <<conc, admin>>

\* the service calls execute_query for its next request: the locals of the
\* finished call are gone, the collection stays
NextCall ==
  /\ pc \in {"Succeeded", "Failed"}
  /\ calls < MaxCalls
  /\ calls' = calls + 1
  /\ agent_name' \in AgentNames
  /\ query' \in Intents
  /\ pc' = "Initial"
  /\ endpoint' = <<>>
  /\ branch' = "none"
  /\ requests' = <<>>
  /\ responses' = <<>>
  /\ result' = <<>>
  /\ error' = NoExc
  /\ logged' = <<>>
  /\ UNCHANGED <<collection, wf_vars>>
  /\ UNCHANGED <<conc, admin>>

Next ==
  \/ get_agent_by_name
  \/ ODataRequest
  \/ ODataResponse
  \/ GenericRequest
  \/ GenericResponse
  \/ NextCall

Spec ==
  Init /\ [][Next]_vars


(***************************************************************************)
(* Properties                                                              *)
(***************************************************************************)
\* execute_query is over
Finished ==
  pc \in {"Succeeded", "Failed"}

\* s begins with p
StartsWith(s, p) ==
  Len(s) >= Len(p) /\ SubSeq(s, 1, Len(p)) = p

\* the status of the first attempt, 0 when client.get raised
FirstStatus ==
  IF responses # <<>> /\ responses[1].kind = "response"
    THEN responses[1].status ELSE 0

\* the outcome of the last attempt
LastOutcome ==
  responses[Len(responses)]

Is2xx(st) ==
  st >= 200 /\ st <= 299

\* the intent has a key query whose value is a nested object
ElasticShaped(q) ==
  HasKey(q, T_query) /\ Item(q, T_query).t = "dict"

\* the endpoint contains odata in any letter case
EndpointNamesOData ==
  endpoint # <<>> /\ Contains(Lower(endpoint), T_odata)

\* the first attempt was rejected with a status the fallback rule names
FallbackEligible ==
  /\ FirstStatus # 0
  /\ \/ branch = "Generic" /\ ~ElasticShaped(query) /\ FirstStatus = 405
     \/ /\ branch = "OData" \/ ElasticShaped(query)
        /\ ~Is2xx(FirstStatus)
        /\ FirstStatus \notin {400, 404}

C3_OData400And404Terminal ==
  (branch = "OData" /\ FirstStatus \in {400, 404}) =>
    /\ pc = "Failed"
    /\ Len(requests) = 1
    /\ Len(responses) = 1
    /\ requests[1].url = full_url(endpoint, query)
    /\ result = <<>>

\* an OData request answered with 400
C3_Witness ==
  /\ branch = "OData"
  /\ FirstStatus = 400
  /\ pc = "Failed"
  /\ error.status = 400

\* C4: for every dialect and every status in 200..299 with a JSON body,
\* execute_query succeeds and returns the decoded body of that response.
C4_Every2xxSucceeds ==
  (/\ responses # <<>>
   /\ LastOutcome.kind = "response"
   /\ Is2xx(LastOutcome.status)
   /\ IsJson(LastOutcome.body)) =>
    /\ pc = "Succeeded"
    /\ result = <<JsonLoads(LastOutcome.body)>>

\* C5: a 2xx response whose body is not JSON ends execute_query in failure
\* with a response-decode error: no result, no further request, and no
\* report of it as a missing-entity / query-configuration error.
C5_DecodeErrorReported ==
  (/\ responses # <<>>
   /\ LastOutcome.kind = "response"
   /\ Is2xx(LastOutcome.status)
   /\ ~IsJson(LastOutcome.body)) =>
    /\ pc = "Failed"
    /\ result = <<>>
    /\ Len(requests) = Len(responses)
    /\ error.text[Len(error.text)] = "str(JSONDecodeError)"
    /\ \A i \in 1..Len(logged) : logged[i] # "OData query configuration error"
    /\ \A i \in 1..Len(error.text) :
         error.text[i] # "OData query must include 'entity_set' or 'type' field"

\* C6: on every path a request that times out ends execute_query in a
\* failure reported as a timeout, not as a connection error, with no retry.
C6_TimeoutReportedAsTimeout ==
  (responses # <<>> /\ LastOutcome.kind = "timeout") =>
    /\ pc = "Failed"
    /\ Len(requests) = 1
    /\ error.text = <<"API request timed out">>
    /\ \A i \in 1..Len(error.text) : error.text[i] # "OData API connection error"

\* C7: every endpoint that contains odata in any letter case takes the
\* OData path, whatever keys the intent has.
C7_ODataEndpointTakesODataPath ==
  (EndpointNamesOData /\ branch # "none") => branch = "OData"

\* C8: the OData path is taken only if the endpoint contains odata or the
\* intent has a top-level key entity_set or filter.
C8_ODataPathOnlyIf ==
  branch = "OData" =>
    \/ EndpointNamesOData
    \/ HasKey(query, T_entity_set)
    \/ HasKey(query, T_filter)

\* the case C9 is about: no odata in the endpoint, a nested object under
\* query, neither entity_set nor filter, and a request issued
C9_Case ==
  /\ endpoint # <<>>
  /\ ~EndpointNamesOData
  /\ ElasticShaped(query)
  /\ ~HasKey(query, T_entity_set)
  /\ ~HasKey(query, T_filter)
  /\ requests # <<>>

TargetsEntity(url, ep, target) ==
  \/ url = RStripSlash(ep) \o <<"/">> \o target
  \/ StartsWith(url, RStripSlash(ep) \o <<"/">> \o target \o <<"?">>)

\* the failure is the missing-entity error
MissingEntityFailure ==
  /\ pc = "Failed"
  /\ error.text # <<>>
  /\ error.text[Len(error.text)] =
       "OData query must include 'entity_set' or 'type' field"

\* C10 (as stated): on the OData path the target is entity_set when that key
\* is present and type when it is absent; with neither key, execute_query
\* fails with the missing-entity error and no request.
C10_TargetByPresence ==
  branch = "OData" =>
    /\ requests # <<>> =>
         TargetsEntity(requests[1].url, endpoint,
                       PyStr(IF HasKey(query, T_entity_set)
                               THEN Item(query, T_entity_set)
                               ELSE Get(query, T_type)))
    /\ (~HasKey(query, T_entity_set) /\ ~HasKey(query, T_type)) =>
         MissingEntityFailure /\ requests = <<>>

\* a value that counts as given: present and not empty (nor null, nor 0)
Given(q, k) ==
  HasKey(q, k) /\ Truthy(Item(q, k))

\* C10 (amended): on the OData path the target is entity_set when it is
\* present and not empty, otherwise type when that is present and not empty;
\* with neither, execute_query fails with the missing-entity error and no
\* request.
C10_TargetByValue ==
  branch = "OData" =>
    /\ (requests # <<>> /\ Given(query, T_entity_set)) =>
         TargetsEntity(requests[1].url, endpoint,
                       PyStr(Item(query, T_entity_set)))
    /\ (requests # <<>> /\ ~Given(query, T_entity_set)) =>
         /\ Given(query, T_type)
         /\ TargetsEntity(requests[1].url, endpoint, PyStr(Item(query, T_type)))
    /\ (~Given(query, T_entity_set) /\ ~Given(query, T_type)) =>
         MissingEntityFailure /\ requests = <<>>

\* an empty entity_set next to a type: the request goes to the type
C10_Witness ==
  /\ branch = "OData"
  /\ HasKey(query, T_entity_set)
  /\ ~Truthy(Item(query, T_entity_set))
  /\ requests # <<>>
  /\ requests[1].url = <<"h","/","o","d","a","t","a","/","T">>


(***************************************************************************)
(* The OData encoder on its own: one call of execute_query for an agent    *)
(* whose requests take the OData block, over intents that use every        *)
(* recognised key.                                                         *)
(***************************************************************************)
\* the values of $filter: operators, a function call with quotes and a
\* space, and reserved characters
ODataFilterChoices ==
  {Absent,
   StrVal(<<"a"," ","e","q"," ","1">>),
   StrVal(<<"c","o","n","t","a","i","n","s","(","n",",","'","x"," ","y","'",")">>),
   StrVal(<<"p","/","q","&","r","=","s","$","t">>)}

\* the keys are put in the dict in the reverse of the order of the URL
ODataIntents ==
  { DictVal(OptItem(T_expand, ex) \o OptItem(T_orderby, ob)
            \o OptItem(T_select, se) \o OptItem(T_from, fr)
            \o OptItem(T_skip, sk) \o OptItem(T_size, si)
            \o OptItem(T_top, to) \o OptItem(T_filter, fi)
            \o OptItem(T_entity_set, StrVal(<<"E">>))) :
      ex \in {Absent, StrVal(<<"A","/","B">>)},
      ob \in {Absent, StrVal(<<"n"," ","d","e","s","c">>)},
      se \in {Absent, StrVal(<<"a",",","b">>)},
      fr \in {Absent, IntVal(<<"3">>)},
      sk \in {Absent, IntVal(<<"2">>)},
      si \in {Absent, IntVal(<<"5">>)},
      to \in {Absent, IntVal(<<"0">>), IntVal(<<"1","0">>)},
      fi \in ODataFilterChoices }

InitOData ==
  /\ collection \in {{[name |-> "a1", endpoint |-> ep]} :
                       ep \in { <<"h","/","o","d","a","t","a","/">>,
                                <<"h","/","a","p","i">> }}
  /\ agent_name = "a1"
  /\ query \in ODataIntents
  /\ pc = "Initial"
  /\ endpoint = <<>>
  /\ branch = "none"
  /\ requests = <<>>
  /\ responses = <<>>
  /\ result = <<>>
  /\ error = NoExc
  /\ logged = <<>>
  /\ calls = 1
  /\ WorkflowIdle
  /\ conc = <<>>
  /\ admin = <<>>

NextOData ==
  \/ get_agent_by_name
  \/ ODataRequest
  \/ ODataResponse

SpecOData ==
  InitOData /\ [][NextOData]_vars

(***************************************************************************)
(* Reading a URL back                                                      *)
(***************************************************************************)
\* the position of the first c in s, 0 when there is none
FirstIndex(s, c) ==
  IF \E i \in 1..Len(s) : s[i] = c
    THEN CHOOSE i \in 1..Len(s) : s[i] = c /\ \A j \in 1..(i - 1) : s[j] # c
    ELSE 0

\* s.split(c)
RECURSIVE Split(_, _)
Split(s, c) ==
  IF FirstIndex(s, c) = 0 THEN <<s>>
  ELSE <<SubSeq(s, 1, FirstIndex(s, c) - 1)>>
         \o Split(SubSeq(s, FirstIndex(s, c) + 1, Len(s)), c)

\* the part of the URL after the first "?", <<>> when there is no "?"
QueryString(url) ==
  IF FirstIndex(url, "?") = 0 THEN <<>>
  ELSE SubSeq(url, FirstIndex(url, "?") + 1, Len(url))

\* the name=value pieces of the URL
Pieces(url) ==
  IF FirstIndex(url, "?") = 0 THEN <<>> ELSE Split(QueryString(url), "&")

\* the name of a piece: what stands before its first "="
PieceName(piece) ==
  IF FirstIndex(piece, "=") = 0 THEN piece
  ELSE SubSeq(piece, 1, FirstIndex(piece, "=") - 1)

\* the value of a piece: what stands after its first "="
PieceValue(piece) ==
  IF FirstIndex(piece, "=") = 0 THEN <<>>
  ELSE SubSeq(piece, FirstIndex(piece, "=") + 1, Len(piece))

\* the names of the pieces of the URL, in order
PieceNames(url) ==
  [i \in 1..Len(Pieces(url)) |-> PieceName(Pieces(url)[i])]

\* the values the URL gives for a name, in order
RECURSIVE ValuesIn(_, _)
ValuesIn(pieces, name) ==
  IF pieces = <<>> THEN <<>>
  ELSE (IF PieceName(pieces[1]) = name THEN <<PieceValue(pieces[1])>> ELSE <<>>)
         \o ValuesIn(Tail(pieces), name)

\* the OData request of the call has been issued
ODataRequestIssued ==
  branch = "OData" /\ requests # <<>>

\* the $ names the intent asks for, in the order the claim fixes
RECURSIVE Keep(_, _)
Keep(names, wanted) ==
  IF names = <<>> THEN <<>>
  ELSE (IF wanted[1] THEN <<(<<"$">> \o names[1])>> ELSE <<>>)
         \o Keep(Tail(names), Tail(wanted))

ExpectedNames(q) ==
  Keep(<<T_filter, T_top, T_skip, T_select, T_orderby, T_expand>>,
       <<HasKey(q, T_filter),
         HasKey(q, T_top) \/ HasKey(q, T_size),
         HasKey(q, T_skip) \/ HasKey(q, T_from),
         HasKey(q, T_select),
         HasKey(q, T_orderby),
         HasKey(q, T_expand)>>)

\* C11: the query string of an OData request lists the parameters that are
\* present in the order $filter, $top, $skip, $select, $orderby, $expand,
\* joined by "&", leaves out those whose key is absent (no "?" when there is
\* none), and the request is a GET without a body.
C11_ODataParametersInFixedOrder ==
  ODataRequestIssued =>
    /\ requests[1].method = "GET"
    /\ requests[1].body = NoneVal
    /\ PieceNames(requests[1].url) = ExpectedNames(query)
    /\ ExpectedNames(query) = <<>> =>
         /\ FirstIndex(requests[1].url, "?") = 0
         /\ requests[1].url = RStripSlash(endpoint) \o <<"/", "E">>
    /\ ExpectedNames(query) # <<>> =>
         StartsWith(requests[1].url, RStripSlash(endpoint) \o <<"/", "E", "?">>)

\* an intent with every key, put in the dict in reverse order
C11_Witness ==
  /\ ODataRequestIssued
  /\ HasKey(query, T_top) /\ HasKey(query, T_skip)
  /\ PieceNames(requests[1].url) =
       << <<"$","f","i","l","t","e","r">>, <<"$","t","o","p">>,
          <<"$","s","k","i","p">>, <<"$","s","e","l","e","c","t">>,
          <<"$","o","r","d","e","r","b","y">>, <<"$","e","x","p","a","n","d">> >>

\* C12: $top takes the value of top whenever top is present and of size only
\* when top is absent, $skip the value of skip whenever skip is present and
\* of from only when skip is absent; at most one $top and one $skip appear.
C12_AliasOnlyWhenAbsent ==
  ODataRequestIssued =>
    LET tops == ValuesIn(Pieces(requests[1].url), <<"$","t","o","p">>)
        skips == ValuesIn(Pieces(requests[1].url), <<"$","s","k","i","p">>)
    IN  /\ Len(tops) <= 1
        /\ Len(skips) <= 1
        /\ HasKey(query, T_top) => tops = <<PyStr(Item(query, T_top))>>
        /\ (~HasKey(query, T_top) /\ HasKey(query, T_size)) =>
             tops = <<PyStr(Item(query, T_size))>>
        /\ (~HasKey(query, T_top) /\ ~HasKey(query, T_size)) => tops = <<>>
        /\ HasKey(query, T_skip) => skips = <<PyStr(Item(query, T_skip))>>
        /\ (~HasKey(query, T_skip) /\ HasKey(query, T_from)) =>
             skips = <<PyStr(Item(query, T_from))>>
        /\ (~HasKey(query, T_skip) /\ ~HasKey(query, T_from)) => skips = <<>>

\* top = 0 next to size = 5, and from = 3 without skip
C12_Witness ==
  /\ ODataRequestIssued
  /\ HasKey(query, T_size)
  /\ ~HasKey(query, T_skip)
  /\ ValuesIn(Pieces(requests[1].url), <<"$","t","o","p">>) = << <<"0">> >>
  /\ ValuesIn(Pieces(requests[1].url), <<"$","s","k","i","p">>) = << <<"3">> >>

\* how often c occurs in s
Count(s, c) ==
  Cardinality({i \in 1..Len(s) : s[i] = c})

\* the reserved characters of a URL other than ' ( ) ,
OtherReserved ==
  {":", "/", "?", "#", "[", "]", "@", "!", "$", "&", "*", "+", ";", "="}

\* the character a %XX triple stands for, the triple itself when the table
\* of the model does not have it
PctChars ==
  {" ", "!", "\"", "#", "$", "%", "&", "'", "(", ")", "*", "+", ",", "/",
   ":", ";", "<", "=", ">", "?", "@", "[", "]", "{", "|", "}"}

\* percent-decoding
RECURSIVE Unquote(_)
Unquote(s) ==
  IF s = <<>> THEN <<>>
  ELSE IF /\ s[1] = "%"
          /\ Len(s) >= 3
          /\ \E c \in PctChars : PctCode(c) = SubSeq(s, 1, 3)
    THEN <<CHOOSE c \in PctChars : PctCode(c) = SubSeq(s, 1, 3)>>
           \o Unquote(SubSeq(s, 4, Len(s)))
  ELSE <<s[1]>> \o Unquote(Tail(s))

\* C13: the encoded $filter value leaves ' ( ) , and letters as they are,
\* percent-encodes every space and every other reserved character (so that
\* decoding gives the filter back), and the $ of each parameter name is not
\* percent-encoded.
C13_FilterEncoding ==
  (ODataRequestIssued /\ HasKey(query, T_filter)) =>
    LET given == Item(query, T_filter).s
        values == ValuesIn(Pieces(requests[1].url), <<"$","f","i","l","t","e","r">>)
    IN  /\ Len(values) = 1
        /\ \A c \in {"'", "(", ")", ","} \cup {LowerLetters[i] : i \in 1..26} :
             Count(values[1], c) = Count(given, c)
        /\ \A c \in {" "} \cup OtherReserved : Count(values[1], c) = 0
        /\ Unquote(values[1]) = given
        /\ \A i \in 1..Len(Pieces(requests[1].url)) :
             Pieces(requests[1].url)[i][1] = "$"
        /\ ~Contains(requests[1].url, <<"%","2","4","f","i","l","t","e","r">>)

\* the filter contains(n,'x y')
C13_Witness ==
  /\ ODataRequestIssued
  /\ ValuesIn(Pieces(requests[1].url), <<"$","f","i","l","t","e","r">>) =
       << <<"c","o","n","t","a","i","n","s","(","n",",","'","x","%","2","0","y","'",")">> >>


(***************************************************************************)
(* The generic encoder on its own: one call of execute_query for an agent  *)
(* whose requests take the generic part, over intents with scalars, lists, *)
(* nested objects, null, and keys that hold "&" or "=".                    *)
(***************************************************************************)
T_tags == <<"t","a","g","s">>

NestedObject ==
  DictVal(<< <<(<<"m">>), StrVal(<<"x">>)>> >>)

\* tags: scalars only, scalars mixed with an object, empty, null inside
TagsChoices ==
  {Absent,
   ListVal(<<StrVal(<<"x">>), StrVal(<<"y">>)>>),
   ListVal(<<StrVal(<<"x"," ","y">>), IntVal(<<"7">>)>>),
   ListVal(<<StrVal(<<"x">>), NestedObject>>),
   ListVal(<<NoneVal>>),
   ListVal(<<>>)}

\* an entry whose key holds a separator of the query string
OddKeyChoices ==
  {<<>>,
   << <<(<<"a","&","b">>), StrVal(<<"1">>)>> >>,
   << <<(<<"a","=","b">>), StrVal(<<"1">>)>> >>}

GenericIntents ==
  { DictVal(OptItem(<<"q">>, qq) \o OptItem(T_tags, tg) \o OptItem(<<"n">>, nn)
            \o OptItem(<<"o">>, oo) \o odd) :
      qq \in {Absent, StrVal(<<"a"," ","b">>), StrVal(<<>>), IntVal(<<"7">>)},
      tg \in TagsChoices,
      nn \in {Absent, NoneVal},
      oo \in {Absent, NestedObject},
      odd \in OddKeyChoices }

InitGeneric ==
  /\ collection \in {{[name |-> "a1", endpoint |-> ep]} :
                       ep \in { <<"h","/","a","p","i">>,
                                <<"h","/","a","p","i","/">> }}
  /\ agent_name = "a1"
  /\ query \in GenericIntents
  /\ pc = "Initial"
  /\ endpoint = <<>>
  /\ branch = "none"
  /\ requests = <<>>
  /\ responses = <<>>
  /\ result = <<>>
  /\ error = NoExc
  /\ logged = <<>>
  /\ calls = 1
  /\ WorkflowIdle
  /\ conc = <<>>
  /\ admin = <<>>

NextGeneric ==
  \/ get_agent_by_name
  \/ GenericRequest
  \/ GenericResponse

SpecGeneric ==
  InitGeneric /\ [][NextGeneric]_vars

\* the generic request of the call has been issued
GenericRequestIssued ==
  branch = "Generic" /\ requests # <<>>

\* the key holds no separator of the query string
PlainKey(k) ==
  \A i \in 1..Len(k) : k[i] \notin {"&", "="}

\* a list made of scalars only
ScalarList(v) ==
  v.t = "list" /\ \A i \in 1..Len(v.items) : IsScalar(v.items[i])

\* the percent-encoded string form of a scalar
EncodedScalar(v) ==
  Quote(PyStr(v), {"/"})

\* the percent-encoded JSON serialization of a value
EncodedJson(v) ==
  Quote(JsonDumps(v), {"/"})

C15_NonScalarAsOneJsonParameter ==
  GenericRequestIssued =>
    \A i \in 1..Len(query.items) :
      LET k == query.items[i][1]
          v == query.items[i][2]
          got == ValuesIn(Pieces(requests[1].url), k)
      IN  PlainKey(k) =>
            /\ (v.t = "dict" \/ (v.t = "list" /\ ~ScalarList(v))) =>
                 got = <<EncodedJson(v)>>
            /\ ScalarList(v) =>
                 got = [j \in 1..Len(v.items) |-> EncodedScalar(v.items[j])]

\* C15 (amended): an entry whose value is an object gives exactly one
\* parameter, the percent-encoded JSON serialization of the object; every
\* list is expanded into one same-named parameter per element, a scalar
\* element as its percent-encoded string form and any other element as the
\* percent-encoded JSON serialization of that element.
C15_ListsAlwaysExpanded ==
  GenericRequestIssued =>
    \A i \in 1..Len(query.items) :
      LET k == query.items[i][1]
          v == query.items[i][2]
          got == ValuesIn(Pieces(requests[1].url), k)
      IN  PlainKey(k) =>
            /\ v.t = "dict" => got = <<EncodedJson(v)>>
            /\ v.t = "list" =>
                 got = [j \in 1..Len(v.items) |->
                          IF IsScalar(v.items[j])
                            THEN EncodedScalar(v.items[j])
                            ELSE EncodedJson(v.items[j])]

\* the list ["x", {"m": "x"}] sent as two parameters
C15_Witness ==
  /\ GenericRequestIssued
  /\ HasKey(query, T_tags)
  /\ ~ScalarList(Item(query, T_tags))
  /\ requests[1].url =
       <<"h","/","a","p","i","?","t","a","g","s","=","x","&",
         "t","a","g","s","=",
         "%","7","B","%","2","2","m","%","2","2","%","3","A","%","2","0",
         "%","2","2","x","%","2","2","%","7","D">>

\* the query string split on "&" and "=" and percent-decoded
DecodedPairs(url) ==
  [i \in 1..Len(Pieces(url)) |->
     <<Unquote(PieceName(Pieces(url)[i])), Unquote(PieceValue(Pieces(url)[i]))>>]

\* C16: for an intent whose values are all scalars, splitting the query
\* string on "&" and "=" and percent-decoding gives back the key/value pairs
\* of the intent, each value as the string form of the scalar.
C16_RoundTrip ==
  (GenericRequestIssued /\ \A i \in 1..Len(query.items) : IsScalar(query.items[i][2])) =>
    DecodedPairs(requests[1].url) =
      [i \in 1..Len(query.items) |->
         <<query.items[i][1], PyStr(query.items[i][2])>>]


(***************************************************************************)
(* generate_query (src/User-Portal/Backend/query_generator.py)             *)
(***************************************************************************)
\* s ends with p
EndsWith(s, p) ==
  Len(s) >= Len(p) /\ SubSeq(s, Len(s) - Len(p) + 1, Len(s)) = p

\* three grave accents
Fence ==
  <<Backtick,Backtick,Backtick>>

\* three grave accents and the tag json
JsonFence ==
  <<Backtick,Backtick,Backtick,"j","s","o","n">>

\* generated_text with the generic fence removed before the json fence
generated_text_GenericFirst(content) ==
  LET t0 == Strip(content)
      t1 == IF StartsWith(t0, Fence) THEN SubSeq(t0, 4, Len(t0)) ELSE t0
      t2 == IF StartsWith(t1, JsonFence) THEN SubSeq(t1, 8, Len(t1)) ELSE t1
      t3 == IF EndsWith(t2, Fence) THEN SubSeq(t2, 1, Len(t2) - 3) ELSE t2
  IN  Strip(t3)

\* generated_text = response.choices[0].message.content.strip(), then
\* [7:] after a leading fence with the tag json, [3:] after a leading
\* fence, [:-3] before a trailing fence, then strip()
generated_text(content) ==
  LET t0 == Strip(content)
      t1 == IF StartsWith(t0, JsonFence) THEN SubSeq(t0, 8, Len(t0)) ELSE t0
      t2 == IF StartsWith(t1, Fence) THEN SubSeq(t1, 4, Len(t1)) ELSE t1
      t3 == IF EndsWith(t2, Fence) THEN SubSeq(t2, 1, Len(t2) - 3) ELSE t2
  IN  Strip(t3)

\* the except clauses of generate_query
GenerateExcept(e) ==
  IF IsInstance(e, "JSONDecodeError")
    THEN Exc("ValueError",
             <<"Failed to parse generated query as JSON">> \o e.text, 0)
    ELSE Exc("Exception", <<"Error generating query">> \o e.text, 0)

\* the except clause of generate_final_response
FinalExcept(e) ==
  Exc("Exception", <<"Error generating final response">> \o e.text, 0)

\* the except clauses of complete_query: ValueError becomes 404, every other
\* exception 500
CompleteExcept(e) ==
  IF IsInstance(e, "ValueError")
    THEN [status |-> 404, detail |-> e.text, body |-> <<>>]
    ELSE [status |-> 500, detail |-> <<"Error processing query">> \o e.text,
          body |-> <<>>]

\* JSON texts the LLM may produce: objects that are query intents
JsonTexts ==
  { <<"{","}">>,
    <<"{","\"","t","y","p","e","\"",":"," ","\"","T","\"","}">>,
    <<"{","\"","q","\"",":"," ","\"","a"," ","b","\"","}">>,
    <<"{","\"","e","n","t","i","t","y","_","s","e","t","\"",":"," ","\"","E","\"","}">>,
    <<"{","\"","q","\"",":"," ","\"",Backtick,Backtick,Backtick,"\"","}">> }

\* how the LLM presents a text: bare, in a fence with the tag json, in a
\* fence without a tag, with no line breaks inside the fence, in a fence
\* with another tag, and between whitespace
Wrap(w, t) ==
  CASE w = "none"       -> t
    [] w = "json"       -> JsonFence \o <<"\n">> \o t \o <<"\n">> \o Fence
    [] w = "plain"      -> Fence \o <<"\n">> \o t \o <<"\n">> \o Fence
    [] w = "json_tight" -> JsonFence \o t \o Fence
    [] w = "JSON"       -> Fence \o <<"J","S","O","N","\n">> \o t \o <<"\n">> \o Fence
    [] w = "js"         -> Fence \o <<"j","s","\n">> \o t \o <<"\n">> \o Fence
    [] w = "padded"     -> <<" ">> \o t \o <<"\n">>

\* message.content of the generation call: a wrapped JSON text, a text that
\* is not JSON, or nothing
LlmReplies ==
  {Wrap(w, t) : w \in {"none", "json", "plain", "json_tight", "JSON", "js", "padded"}, t \in JsonTexts}
    \cup {<<"o","o","p","s">>, <<>>}

\* chat.completions.create returns a message or raises
LlmOutcomes ==
  {[kind |-> "message", content |-> c] : c \in LlmReplies}
    \cup {[kind |-> "error", content |-> <<>>]}

FinalOutcomes ==
  {[kind |-> "message", content |-> c] : c \in {<<" ","o","k","\n">>}}
    \cup {[kind |-> "error", content |-> <<>>]}

\* is_odata = "/OData/" in endpoint or endpoint.endswith("/OData/v4/2.0")
\*            or endpoint.endswith("/OData/v4/2.0/")
is_odata_generator(ep) ==
  \/ Contains(ep, <<"/","O","D","a","t","a","/">>)
  \/ EndsWith(ep, <<"/","O","D","a","t","a","/","v","4","/","2",".","0">>)
  \/ EndsWith(ep, <<"/","O","D","a","t","a","/","v","4","/","2",".","0","/">>)

\* the record of one call of chat.completions.create: the function that
\* makes it, the agent it is made for, and whether the prompt carries the
\* OData guidance (api_context of generate_query)
LlmCall(by, odata_context) ==
  [by |-> by, agent |-> agent_name, odata_context |-> odata_context]

\* complete_query has been entered: generate_query is about to run
InitWorkflow ==
  /\ collection \in Collections
  /\ agent_name \in AgentNames
  /\ query = DictVal(<<>>)
  /\ pc = "Idle"
  /\ endpoint = <<>>
  /\ branch = "none"
  /\ requests = <<>>
  /\ responses = <<>>
  /\ result = <<>>
  /\ error = NoExc
  /\ logged = <<>>
  /\ calls = 1
  /\ cq = "Step1"
  /\ http = [status |-> 0, detail |-> <<>>, body |-> <<>>]
  /\ gpc = "Initial"
  /\ gerror = NoExc
  /\ llm_reply = <<>>
  /\ generated_query = <<>>
  /\ fpc = "Idle"
  /\ ferror = NoExc
  /\ final_response = <<>>
  /\ llm_calls = <<>>
  /\ gagent = <<>>
  /\ fagent = <<>>
  /\ conc = <<>>
  /\ admin = <<>>

\* the state execute_query reads and writes
exec_vars == <<query, pc, endpoint, branch, requests, responses, result,
               error, logged, calls>>

\* generate_query_get_agent with the LLM called before the agent is looked up
generate_query_get_agent_CallsFirst ==
  /\ gpc = "Initial"
  /\ llm_calls' = Append(llm_calls, LlmCall("generate_query", FALSE))
  /\ IF \E a \in collection : a.name = agent_name
       THEN /\ \E a \in collection : a.name = agent_name /\ gagent' = <<a>>
            /\ gpc' = "Calling"
            /\ UNCHANGED gerror
       ELSE /\ gpc' = "Failed"
            /\ gerror' = Exc("ValueError", <<"Agent not found">>, 0)
            /\ UNCHANGED gagent
  /\ UNCHANGED <<collection, agent_name, exec_vars, cq, http, llm_reply,
                 generated_query, fpc, ferror, final_response, fagent>>
  /\ UNCHANGED <<conc, admin>>

\* generate_query up to  client = OpenAI(api_key=agent["api_key"]): the
\* lookup is outside the try, so its ValueError leaves the function as it is
generate_query_get_agent ==
  /\ gpc = "Initial"
  /\ IF \E a \in collection : a.name = agent_name
       THEN /\ \E a \in collection : a.name = agent_name /\ gagent' = <<a>>
            /\ gpc' = "Calling"
            /\ UNCHANGED gerror
       ELSE /\ gpc' = "Failed"
            /\ gerror' = Exc("ValueError", <<"Agent not found">>, 0)
            /\ UNCHANGED gagent
  /\ UNCHANGED <<collection, agent_name, exec_vars, cq, http, llm_reply,
                 generated_query, fpc, ferror, final_response, llm_calls,
                 fagent>>
  /\ UNCHANGED <<conc, admin>>

\* generate_query from  client.chat.completions.create  to its end
generate_query_create ==
  /\ gpc = "Calling"
  /\ llm_calls' = Append(llm_calls,
         LlmCall("generate_query", is_odata_generator(gagent[1].endpoint)))
  /\ \E out \in LlmOutcomes :
       IF out.kind = "error"
         THEN /\ gerror' = GenerateExcept(Exc("APIError", <<"str(APIError)">>, 0))
              /\ gpc' = "Failed"
              /\ UNCHANGED <<llm_reply, generated_query>>
       ELSE IF IsJson(generated_text(out.content))
         THEN /\ llm_reply' = <<out.content>>
              /\ generated_query' = <<JsonLoads(generated_text(out.content))>>
              /\ gpc' = "Done"
              /\ UNCHANGED gerror
         ELSE /\ llm_reply' = <<out.content>>
              /\ gerror' = GenerateExcept(Exc("JSONDecodeError", <<"str(JSONDecodeError)">>, 0))
              /\ gpc' = "Failed"
              /\ UNCHANGED generated_query
  /\ UNCHANGED <<collection, agent_name, exec_vars, cq, http, fpc, ferror,
                 final_response, gagent, fagent>>
  /\ UNCHANGED <<conc, admin>>

(***************************************************************************)
(* generate_final_response (src/User-Portal/Backend/openai_processor.py)   *)
(***************************************************************************)
\* generate_final_response up to  client = OpenAI(api_key=agent["api_key"])
generate_final_response_get_agent ==
  /\ fpc = "Initial"
  /\ IF \E a \in collection : a.name = agent_name
       THEN /\ \E a \in collection : a.name = agent_name /\ fagent' = <<a>>
            /\ fpc' = "Calling"
            /\ UNCHANGED ferror
       ELSE /\ fpc' = "Failed"
            /\ ferror' = Exc("ValueError", <<"Agent not found">>, 0)
            /\ UNCHANGED fagent
  /\ UNCHANGED <<collection, agent_name, exec_vars, cq, http, gpc, gerror,
                 llm_reply, generated_query, final_response, llm_calls,
                 gagent>>
  /\ UNCHANGED <<conc, admin>>

\* generate_final_response from  client.chat.completions.create  to its end
generate_final_response_create ==
  /\ fpc = "Calling"
  /\ llm_calls' = Append(llm_calls, LlmCall("generate_final_response", FALSE))
  /\ \E out \in FinalOutcomes :
       IF out.kind = "error"
         THEN /\ ferror' = FinalExcept(Exc("APIError", <<"str(APIError)">>, 0))
              /\ fpc' = "Failed"
              /\ UNCHANGED final_response
         ELSE /\ final_response' = <<Strip(out.content)>>
              /\ fpc' = "Done"
              /\ UNCHANGED ferror
  /\ UNCHANGED <<collection, agent_name, exec_vars, cq, http, gpc, gerror,
                 llm_reply, generated_query, gagent, fagent>>
  /\ UNCHANGED <<conc, admin>>

(***************************************************************************)
(* complete_query (src/User-Portal/Backend/main.py)                        *)
(***************************************************************************)
\* Step 2: api_results = await execute_query(request.agent_name, generated_query)
complete_query_execute ==
  /\ cq = "Step1" /\ gpc = "Done"
  /\ cq' = "Step2"
  /\ query' = generated_query[1]
  /\ pc' = "Initial"
  /\ UNCHANGED <<collection, agent_name, endpoint, branch, requests, responses,
                 result, error, logged, calls, http, gpc, gerror, llm_reply,
                 generated_query, fpc, ferror, final_response, llm_calls,
                 gagent, fagent>>
  /\ UNCHANGED <<conc, admin>>

\* complete_query_respond entered although execute_query has failed
complete_query_respond_AfterFailure ==
  /\ cq = "Step2" /\ pc \in {"Succeeded", "Failed"}
  /\ cq' = "Step3"
  /\ fpc' = "Initial"
  /\ UNCHANGED <<collection, agent_name, exec_vars, http, gpc, gerror,
                 llm_reply, generated_query, ferror, final_response, llm_calls,
                 gagent, fagent>>
  /\ UNCHANGED <<conc, admin>>

\* Step 3: final_response = generate_final_response(...)
complete_query_respond ==
  /\ cq = "Step2" /\ pc = "Succeeded"
  /\ cq' = "Step3"
  /\ fpc' = "Initial"
  /\ UNCHANGED <<collection, agent_name, exec_vars, http, gpc, gerror,
                 llm_reply, generated_query, ferror, final_response, llm_calls,
                 gagent, fagent>>
  /\ UNCHANGED <<conc, admin>>

\* return {"response": ..., "generated_query": ..., "api_results": ...}
complete_query_return ==
  /\ cq = "Step3" /\ fpc = "Done"
  /\ cq' = "Returned"
  /\ http' = [status |-> 200, detail |-> <<>>,
              body |-> final_response \o generated_query \o result]
  /\ UNCHANGED <<collection, agent_name, exec_vars, gpc, gerror, llm_reply,
                 generated_query, fpc, ferror, final_response, llm_calls,
                 gagent, fagent>>
  /\ UNCHANGED <<conc, admin>>

\* the exception that left the step complete_query is in, NoExc when none
StepError ==
  CASE cq = "Step1" /\ gpc = "Failed" -> gerror
    [] cq = "Step2" /\ pc = "Failed"  -> error
    [] cq = "Step3" /\ fpc = "Failed" -> ferror
    [] OTHER                           -> NoExc

\* except ValueError / except Exception  of complete_query
complete_query_except ==
  /\ StepError # NoExc
  /\ cq' = "Raised"
  /\ http' = CompleteExcept(StepError)
  /\ UNCHANGED <<collection, agent_name, exec_vars, gpc, gerror, llm_reply,
                 generated_query, fpc, ferror, final_response, llm_calls,
                 gagent, fagent>>
  /\ UNCHANGED <<conc, admin>>

\* the Admin portal removes an agent from the shared collection while the
\* workflow runs: collection.delete_one({"_id": ObjectId(agent_id)})
delete_one ==
  /\ cq \in {"Step1", "Step2", "Step3"}
  /\ \E a \in collection : collection' = collection \ {a}
  /\ UNCHANGED <<agent_name, exec_vars, wf_vars>>
  /\ UNCHANGED <<conc, admin>>

NextWorkflow ==
  \/ generate_query_get_agent
  \/ generate_query_create
  \/ complete_query_execute
  \/ get_agent_by_name
  \/ ODataRequest
  \/ ODataResponse
  \/ GenericRequest
  \/ GenericResponse
  \/ complete_query_respond
  \/ generate_final_response_get_agent
  \/ generate_final_response_create
  \/ complete_query_return
  \/ complete_query_except
  \/ delete_one

SpecWorkflow ==
  InitWorkflow /\ [][NextWorkflow]_vars

(***************************************************************************)
(* Properties of generate_query and complete_query                         *)
(***************************************************************************)
\* generate_query received the text c from the LLM
Replied(c) ==
  llm_reply = <<c>>

\* generate_query returned the value v
Generated(v) ==
  gpc = "Done" /\ generated_query = <<v>>

\* C17: for every valid JSON text T, the reply that is T in a fence with the
\* tag json, the reply that is T in a fence without a tag, and the reply
\* that is T alone make generate_query return the same object, the one T
\* denotes
C17_FencedAndBareAgree ==
  \A t \in JsonTexts : \A w \in {"json", "json_tight", "plain", "none"} :
    Replied(Wrap(w, t)) => Generated(JsonLoads(t))

\* a text with grave accents of its own came back in a json fence and was
\* parsed
C17_Witness ==
  /\ Replied(Wrap("json", <<"{","\"","q","\"",":"," ","\"",Backtick,Backtick,Backtick,"\"","}">>))
  /\ Generated(DictVal(<< <<(<<"q">>), StrVal(<<Backtick, Backtick, Backtick>>)>> >>))

\* C18: a valid JSON text in a fence whose opening carries any language
\* tag, not only the lower-case json, is returned parsed: generate_query
\* does not fail on it
C18_AnyTagStripped ==
  \A t \in JsonTexts : \A w \in {"JSON", "js"} :
    Replied(Wrap(w, t)) => Generated(JsonLoads(t))

\* the ValueError get_agent_by_name raises
AgentNotFound(e) ==
  e.type = "ValueError" /\ e.text = <<"Agent not found">>

\* the registry holds no agent of the requested name
AgentAbsent ==
  ~(\E a \in collection : a.name = agent_name)

\* a step of generate_query or execute_query that looks the agent up and
\* does not find it ends the function with the agent-not-found error
LookupFails ==
  /\ (gpc = "Initial" /\ gpc' # gpc /\ AgentAbsent)
       => (gpc' = "Failed" /\ AgentNotFound(gerror') /\ llm_calls' = <<>>)
  /\ (pc = "Initial" /\ pc' # pc /\ AgentAbsent)
       => (pc' = "Failed" /\ AgentNotFound(error') /\ requests' = <<>>)

\* C19: when the agent name is absent from the registry, generate_query
\* fails with the agent-not-found error and has issued no LLM call, and
\* execute_query fails with it and has issued no HTTP request
C19_NoOutboundCallWhenAgentAbsent ==
  /\ []((gpc = "Failed" /\ AgentNotFound(gerror)) => llm_calls = <<>>)
  /\ []((pc = "Failed" /\ AgentNotFound(error)) => requests = <<>>)
  /\ [][LookupFails]_vars

\* generate_query was called for a name the registry does not hold and failed
C19_Witness ==
  /\ AgentAbsent
  /\ gpc = "Failed" /\ AgentNotFound(gerror)
  /\ llm_calls = <<>>
  /\ gagent = <<>>
  /\ fagent = <<>>

\* execute_query failed on the lookup after generate_query had found the agent
ExecuteLookupFailed ==
  /\ pc = "Failed" /\ AgentNotFound(error)
  /\ gpc = "Done"
  /\ requests = <<>>

\* generate_query failed because the stripped text is not JSON
ParseFailed ==
  /\ gpc = "Failed"
  /\ gerror.type = "ValueError"
  /\ StartsWith(gerror.text, <<"Failed to parse generated query as JSON">>)

\* C20: when the LLM output cannot be parsed as JSON, complete_query answers
\* with the bad-request kind (400), which is not the not-found kind (404) it
\* answers with when the agent does not exist
C20_ParseFailureIsBadRequest ==
  (cq = "Raised" /\ ParseFailed) => (http.status = 400 /\ http.status # 404)

\* execute_query failed on the OData path for one of the three reasons the
\* caller can correct: no entity named, or the server answered 400 or 404
ODataClientFailure ==
  /\ pc = "Failed"
  /\ branch = "OData"
  /\ \/ MissingEntityFailure
     \/ /\ responses # <<>>
        /\ LastOutcome.kind = "response"
        /\ LastOutcome.status \in {400, 404}

\* C21: in the complete-query workflow an OData missing-entity failure, an
\* OData 400 and an OData 404 reach the caller as bad request (400) or not
\* found (404), never as the server-side failure (500) used for connection,
\* timeout and decode failures
C21_ODataClientErrorsAre4xx ==
  (cq = "Raised" /\ ODataClientFailure) => http.status \in {400, 404}


\* a call of chat.completions.create made by generate_final_response
FinalCalled ==
  \E i \in 1..Len(llm_calls) : llm_calls[i].by = "generate_final_response"

\* C22: the stages of complete_query run in the order generation, execution,
\* composition; a stage starts only after the one before it has succeeded, a
\* failed stage keeps every later stage from running, and the caller gets
\* either the full result of the three stages or an error without results
C22_StagesInOrderAndAllOrNothing ==
  /\ (pc # "Idle" \/ requests # <<>>) => gpc = "Done"
  /\ (fpc # "Idle" \/ FinalCalled) => (gpc = "Done" /\ pc = "Succeeded")
  /\ gpc = "Failed" => (pc = "Idle" /\ fpc = "Idle")
  /\ pc = "Failed" => fpc = "Idle"
  /\ http.status # 0 => cq \in {"Returned", "Raised"}
  /\ cq = "Returned" =>
       /\ gpc = "Done" /\ pc = "Succeeded" /\ fpc = "Done"
       /\ http.status = 200
       /\ http.body = <<final_response[1], generated_query[1], result[1]>>
  /\ cq = "Raised" =>
       /\ "Failed" \in {gpc, pc, fpc}
       /\ http.status \in {404, 500}
       /\ http.body = <<>>

\* the workflow returned the results of the three stages
C22_Witness ==
  /\ cq = "Returned"
  /\ Len(http.body) = 3
  /\ Len(llm_calls) = 2 /\ Len(requests) = 1

(***************************************************************************)
(* Two calls of complete_query in progress at once                         *)
(* (src/User-Portal/Backend/main.py).  Every name the handler and the      *)
(* three functions assign is a local of the call, so the locals of a call  *)
(* are one record of conc; what the calls share is the collection.         *)
(***************************************************************************)
\* the calls of complete_query that are followed
Callers ==
  {1, 2}

\* what chat.completions.create answers to generate_query
ConcLlmOutcomes ==
  { [kind |-> "message", content |-> <<"{","}">>],
    [kind |-> "message",
     content |-> Wrap("json", <<"{","\"","t","y","p","e","\"",":"," ","\"","T","\"","}">>)],
    [kind |-> "message",
     content |-> <<"{","\"","q","\"",":"," ","\"","a"," ","b","\"","}">>],
    [kind |-> "message", content |-> <<"o","o","p","s">>],
    [kind |-> "error", content |-> <<>>] }

\* what client.get produces
ConcOutcomes ==
  { Response(200, <<"{", "}">>), Response(200, <<"7">>),
    Response(404, <<"{", "}">>), TimedOut }

\* the locals of a call that has just entered complete_query
NewCall(name) ==
  [ name |-> name, at |-> "Generate", lo |-> <<>>, gq |-> <<>>,
    requests |-> <<>>, out |-> <<>>, result |-> <<>>, fo |-> <<>>,
    final |-> <<>>, llm |-> <<>>, err |-> NoExc,
    http |-> [status |-> 0, detail |-> <<>>, body |-> <<>>] ]

InitConcurrent ==
  /\ collection =
       { [name |-> "a1", endpoint |-> <<"h","/","o","d","a","t","a","/">>],
         [name |-> "a2", endpoint |-> <<"h","/","a","p","i">>] }
  /\ conc \in [Callers -> {NewCall(n) : n \in {"a1", "a2", "a3"}}]
  /\ admin = <<>>
  /\ agent_name = "a1"
  /\ query = DictVal(<<>>)
  /\ pc = "Idle"
  /\ endpoint = <<>>
  /\ branch = "none"
  /\ requests = <<>>
  /\ responses = <<>>
  /\ result = <<>>
  /\ error = NoExc
  /\ logged = <<>>
  /\ calls = 1
  /\ WorkflowIdle

\* get_agent_by_name finds a document
Registered(name) ==
  \E a \in collection : a.name = name

\* agent["endpoint"] of the document get_agent_by_name returns
EndpointOf(name) ==
  (CHOOSE a \in collection : a.name = name).endpoint

\* a call ends a stage with the exception e
Raising(c, e) ==
  [c EXCEPT !.at = "Failing", !.err = e]

\* Step 1 of a call: generate_query(request.agent_name, request.user_query)
conc_generate(r) ==
  /\ conc[r].at = "Generate"
  /\ IF ~Registered(conc[r].name)
       THEN conc' = [conc EXCEPT ![r] =
                       Raising(@, Exc("ValueError", <<"Agent not found">>, 0))]
       ELSE \E lo \in ConcLlmOutcomes :
              LET c == [conc[r] EXCEPT !.lo = <<lo>>,
                                       !.llm = Append(@, "generate_query")]
              IN  conc' = [conc EXCEPT ![r] =
                    IF lo.kind = "error"
                      THEN Raising(c, GenerateExcept(
                                   Exc("APIError", <<"str(APIError)">>, 0)))
                    ELSE IF ~IsJson(generated_text(lo.content))
                      THEN Raising(c, GenerateExcept(
                                   Exc("JSONDecodeError", <<"str(JSONDecodeError)">>, 0)))
                    ELSE [c EXCEPT !.gq = <<JsonLoads(generated_text(lo.content))>>,
                                   !.at = "Execute"]]
  /\ UNCHANGED <<collection, agent_name, exec_vars, wf_vars, admin>>

\* ExecuteArgument taken from the other call whenever that call has generated
\* a query: the query kept in a place the calls share
ExecuteArgument_Shared(r) ==
  IF \E o \in Callers \ {r} : conc[o].gq # <<>>
    THEN conc[CHOOSE o \in Callers \ {r} : conc[o].gq # <<>>].gq[1]
    ELSE conc[r].gq[1]

\* the second argument of  execute_query(request.agent_name, generated_query):
\* the local generated_query of the call
ExecuteArgument(r) ==
  conc[r].gq[1]

\* Step 2 of a call, up to  await client.get
conc_request(r) ==
  /\ conc[r].at = "Execute"
  /\ LET q  == ExecuteArgument(r)
         nm == conc[r].name
     IN  conc' = [conc EXCEPT ![r] =
           IF ~Registered(nm)
             THEN Raising(@, Exc("ValueError", <<"Agent not found">>, 0))
           ELSE IF TakesODataPath(EndpointOf(nm), q)
             THEN IF ODataBuildError(q) # NoExc
                    THEN Raising(@, ODataRaise(ODataBuildError(q)).exc)
                    ELSE [@ EXCEPT !.requests =
                                     Append(@, Request("GET", full_url(EndpointOf(nm), q), NoneVal)),
                                   !.at = "AwaitOData"]
           ELSE [@ EXCEPT !.requests =
                            Append(@, Request("GET", get_url(EndpointOf(nm), q), NoneVal)),
                          !.at = "AwaitGeneric"]]
  /\ UNCHANGED <<collection, agent_name, exec_vars, wf_vars, admin>>

\* Step 2 of a call, from the end of client.get on
conc_response(r) ==
  /\ conc[r].at \in {"AwaitOData", "AwaitGeneric"}
  /\ \E out \in ConcOutcomes :
       LET c == [conc[r] EXCEPT !.out = <<out>>]
           e == IF conc[r].at = "AwaitOData"
                  THEN (IF ODataExit(out) = "return" THEN NoExc
                        ELSE ODataRaise(ODataRaised(out)).exc)
                  ELSE (IF GenericExit(out) = "return" THEN NoExc
                        ELSE GenericRaise(GenericRaised(out)).exc)
       IN  conc' = [conc EXCEPT ![r] =
             IF e = NoExc
               THEN [c EXCEPT !.result = <<JsonLoads(out.body)>>, !.at = "Respond"]
               ELSE Raising(c, e)]
  /\ UNCHANGED <<collection, agent_name, exec_vars, wf_vars, admin>>

\* Step 3 of a call: generate_final_response(agent_name, user_query, api_results)
conc_respond(r) ==
  /\ conc[r].at = "Respond"
  /\ IF ~Registered(conc[r].name)
       THEN conc' = [conc EXCEPT ![r] =
                       Raising(@, Exc("ValueError", <<"Agent not found">>, 0))]
       ELSE \E fo \in FinalOutcomes :
              LET c == [conc[r] EXCEPT !.fo = <<fo>>,
                                       !.llm = Append(@, "generate_final_response")]
              IN  conc' = [conc EXCEPT ![r] =
                    IF fo.kind = "error"
                      THEN Raising(c, FinalExcept(
                                   Exc("APIError", <<"str(APIError)">>, 0)))
                      ELSE [c EXCEPT !.final = <<Strip(fo.content)>>,
                                     !.at = "Return"]]
  /\ UNCHANGED <<collection, agent_name, exec_vars, wf_vars, admin>>

\* the end of a call: the returned dict, or the except clauses
conc_answer(r) ==
  /\ conc[r].at \in {"Return", "Failing"}
  /\ conc' = [conc EXCEPT ![r] =
       IF conc[r].at = "Return"
         THEN [conc[r] EXCEPT
                 !.at = "Returned",
                 !.http = [status |-> 200, detail |-> <<>>,
                           body |-> conc[r].final \o conc[r].gq \o conc[r].result]]
         ELSE [conc[r] EXCEPT !.at = "Raised",
                              !.http = CompleteExcept(conc[r].err)]]
  /\ UNCHANGED <<collection, agent_name, exec_vars, wf_vars, admin>>

NextConcurrent ==
  \E r \in Callers :
    \/ conc_generate(r)
    \/ conc_request(r)
    \/ conc_response(r)
    \/ conc_respond(r)
    \/ conc_answer(r)

SpecConcurrent ==
  InitConcurrent /\ [][NextConcurrent]_vars


\* the answer complete_query gives for the exception e and the outbound
\* calls made before it
Refused(e, reqs, llm) ==
  [requests |-> reqs, llm |-> llm, http |-> CompleteExcept(e)]

\* what one call of complete_query does when it runs alone over the
\* collection: its requests, its LLM calls and its answer, as a function of
\* the agent name and of what the LLM and the remote server answer to it
RunAlone(name, lo, out, fo) ==
  IF ~Registered(name)
    THEN Refused(Exc("ValueError", <<"Agent not found">>, 0), <<>>, <<>>)
  ELSE IF lo.kind = "error"
    THEN Refused(GenerateExcept(Exc("APIError", <<"str(APIError)">>, 0)),
                 <<>>, <<"generate_query">>)
  ELSE IF ~IsJson(generated_text(lo.content))
    THEN Refused(GenerateExcept(Exc("JSONDecodeError", <<"str(JSONDecodeError)">>, 0)),
                 <<>>, <<"generate_query">>)
  ELSE
    LET q    == JsonLoads(generated_text(lo.content))
        ep   == EndpointOf(name)
        od   == TakesODataPath(ep, q)
        reqs == <<Request("GET", IF od THEN full_url(ep, q) ELSE get_url(ep, q),
                          NoneVal)>>
        e    == IF od THEN (IF ODataExit(out) = "return" THEN NoExc
                            ELSE ODataRaise(ODataRaised(out)).exc)
                ELSE (IF GenericExit(out) = "return" THEN NoExc
                      ELSE GenericRaise(GenericRaised(out)).exc)
    IN  IF od /\ ODataBuildError(q) # NoExc
          THEN Refused(ODataRaise(ODataBuildError(q)).exc, <<>>, <<"generate_query">>)
        ELSE IF e # NoExc
          THEN Refused(e, reqs, <<"generate_query">>)
        ELSE IF fo.kind = "error"
          THEN Refused(FinalExcept(Exc("APIError", <<"str(APIError)">>, 0)),
                       reqs, <<"generate_query", "generate_final_response">>)
        ELSE [requests |-> reqs,
              llm |-> <<"generate_query", "generate_final_response">>,
              http |-> [status |-> 200, detail |-> <<>>,
                        body |-> <<Strip(fo.content), q, JsonLoads(out.body)>>]]

\* the answer the outside gave to a call, or any answer when the call never
\* asked: RunAlone does not look at an answer the call did not ask for
Asked(answers, any) ==
  IF answers = <<>> THEN any ELSE answers[1]

\* the call r is over
Over(r) ==
  conc[r].at \in {"Returned", "Raised"}

\* C23: with a registry that does not change, the outbound calls and the
\* answer of each of two calls of complete_query whose steps interleave are
\* those of the same call running alone
C23_ConcurrentCallsIndependent ==
  \A r \in Callers :
    Over(r) =>
      [requests |-> conc[r].requests, llm |-> conc[r].llm, http |-> conc[r].http]
        = RunAlone(conc[r].name,
                   Asked(conc[r].lo, [kind |-> "error", content |-> <<>>]),
                   Asked(conc[r].out, TimedOut),
                   Asked(conc[r].fo, [kind |-> "error", content |-> <<>>]))

\* both calls are over, they asked for different agents with different
\* generated queries, and each got its full result
C23_Witness ==
  /\ \A r \in Callers : conc[r].at = "Returned"
  /\ conc[1].name # conc[2].name
  /\ conc[1].gq # conc[2].gq
  /\ conc[1].requests # conc[2].requests

\* the call of chat.completions.create that generate_query made
GenerateCalls ==
  {i \in 1..Len(llm_calls) : llm_calls[i].by = "generate_query"}

\* C24: for every agent endpoint the query generator gives the OData
\* guidance exactly when the executor, from the endpoint alone, treats the
\* endpoint as OData
C24_SameODataDecision ==
  \A i \in GenerateCalls :
    gagent # <<>> =>
      (llm_calls[i].odata_context <=> is_odata(gagent[1].endpoint))

(***************************************************************************)
(* The workflow while the Admin portal updates the agent                   *)
(* (src/Admin-Portal/Backend/main.py, update_agent)                        *)
(***************************************************************************)
\* the endpoints an update gives the agent
UpdateEndpoints ==
  { <<"h","/","o","d","a","t","a","/">>, <<"h","/","a","p","i">> }

\* complete_query has been entered for the registered agent a1
InitDescriptor ==
  /\ InitWorkflow
  /\ agent_name = "a1"
  /\ \E ep \in UpdateEndpoints : collection = {[name |-> "a1", endpoint |-> ep]}

\* the Admin portal changes the endpoint of an agent while the workflow
\* runs: collection.update_one({"_id": ...}, {"$set": update_data})
update_one ==
  /\ cq \in {"Step1", "Step2", "Step3"}
  /\ \E a \in collection : \E ep \in UpdateEndpoints \ {a.endpoint} :
       collection' = (collection \ {a}) \cup {[a EXCEPT !.endpoint = ep]}
  /\ UNCHANGED <<agent_name, exec_vars, wf_vars>>
  /\ UNCHANGED <<conc, admin>>

NextDescriptor ==
  \/ NextWorkflow
  \/ update_one

SpecDescriptor ==
  InitDescriptor /\ [][NextDescriptor]_vars

\* C25: within one complete-query workflow, generation, execution and
\* composition observe the same agent descriptor, whatever updates and
\* deletions of the agent interleave with the stages
C25_OneDescriptorPerWorkflow ==
  /\ (gagent # <<>> /\ endpoint # <<>>) => endpoint = gagent[1].endpoint
  /\ (gagent # <<>> /\ fagent # <<>>) => fagent = gagent

(***************************************************************************)
(* The Admin portal (src/Admin-Portal/Backend/main.py).  A handler is a    *)
(* sequence of operations on the collection; the operations of two         *)
(* requests interleave.  Documents carry their _id here.                   *)
(***************************************************************************)
VALID_TOKEN ==
  "admin_authenticated_token"

\* the requests to the Admin portal that are followed
AdminCallers ==
  {1, 2}

\* the _id values a request may name: that of the registered agent, and one
\* that no document has
TargetIds ==
  {"id1", "id2"}

\* result.inserted_id of the insert_one of a request
NewId(r) ==
  IF r = 1 THEN "new1" ELSE "new2"

\* the body and path of a request, by handler
AdminArguments ==
  {[op |-> "get_all_agents", id |-> "", name |-> "", update |-> <<>>]}
  \cup {[op |-> "get_agent", id |-> i, name |-> "", update |-> <<>>] :
          i \in TargetIds}
  \cup {[op |-> "create_agent", id |-> "", name |-> n, update |-> <<>>] :
          n \in AgentNames}
  \cup {[op |-> "update_agent", id |-> i, name |-> "", update |-> <<u>>] :
          i \in TargetIds, u \in
            { [name |-> <<"a2">>, endpoint |-> <<>>],
              [name |-> <<>>, endpoint |-> <<(<<"h","/","o","d","a","t","a","/">>)>>],
              [name |-> <<>>, endpoint |-> <<>>] }}
  \cup {[op |-> "delete_agent", id |-> i, name |-> "", update |-> <<>>] :
          i \in TargetIds}

\* a request that has passed HTTPBearer and verify_token and is about to
\* enter its handler; is_authenticated is what verify_token returned
NewAdminRequest(args, token) ==
  [ op |-> args.op, id |-> args.id, name |-> args.name, update |-> args.update,
    token |-> token, is_authenticated |-> (token = VALID_TOKEN),
    at |-> "Start", existing |-> <<>>, resp |-> [status |-> 0, data |-> {}] ]

InitAdmin ==
  /\ collection = { [_id |-> "id1", name |-> "a1", endpoint |-> <<"h","/","a","p","i">>] }
  /\ admin \in [AdminCallers ->
                  {NewAdminRequest(a, t) : a \in AdminArguments, t \in {VALID_TOKEN, "wrong"}}]
  /\ conc = <<>>
  /\ agent_name = "a1"
  /\ query = DictVal(<<>>)
  /\ pc = "Idle"
  /\ endpoint = <<>>
  /\ branch = "none"
  /\ requests = <<>>
  /\ responses = <<>>
  /\ result = <<>>
  /\ error = NoExc
  /\ logged = <<>>
  /\ calls = 1
  /\ WorkflowIdle

\* collection.find_one({"_id": ObjectId(id)}): <<document>> or <<>>
FindById(id) ==
  IF \E a \in collection : a._id = id
    THEN <<CHOOSE a \in collection : a._id = id>> ELSE <<>>

\* collection.find_one({"name": name}) finds a document
NameTaken(name) ==
  \E a \in collection : a.name = name

\* the request r ends with the status st and the documents ds in its body
Answer(r, st, ds) ==
  admin' = [admin EXCEPT ![r] = [@ EXCEPT !.at = "Done",
                                          !.resp = [status |-> st, data |-> ds]]]

\* GET /api/agents
get_all_agents(r) ==
  /\ admin[r].op = "get_all_agents" /\ admin[r].at = "Start"
  /\ Answer(r, 200, collection)
  /\ UNCHANGED <<collection, agent_name, exec_vars, wf_vars, conc>>

\* GET /api/agents/{agent_id}
get_agent(r) ==
  /\ admin[r].op = "get_agent" /\ admin[r].at = "Start"
  /\ IF FindById(admin[r].id) = <<>>
       THEN Answer(r, 404, {})
       ELSE Answer(r, 200, {FindById(admin[r].id)[1]})
  /\ UNCHANGED <<collection, agent_name, exec_vars, wf_vars, conc>>

\* create_agent: existing = collection.find_one({"name": agent.name})
create_agent_find(r) ==
  /\ admin[r].op = "create_agent" /\ admin[r].at = "Start"
  /\ IF NameTaken(admin[r].name)
       THEN Answer(r, 400, {})
       ELSE admin' = [admin EXCEPT ![r].at = "Insert"]
  /\ UNCHANGED <<collection, agent_name, exec_vars, wf_vars, conc>>

\* create_agent: result = collection.insert_one(agent_dict)
create_agent_insert(r) ==
  /\ admin[r].op = "create_agent" /\ admin[r].at = "Insert"
  /\ collection' = collection \cup
       {[_id |-> NewId(r), name |-> admin[r].name,
         endpoint |-> <<"h","/","a","p","i">>]}
  /\ admin' = [admin EXCEPT ![r].at = "Fetch"]
  /\ UNCHANGED <<agent_name, exec_vars, wf_vars, conc>>

\* create_agent and update_agent: the document is read back and returned;
\* when it is gone, the None that agent_helper returns fails the response
\* model and the answer is 500
agent_fetch(r) ==
  /\ admin[r].op \in {"create_agent", "update_agent"} /\ admin[r].at = "Fetch"
  /\ LET id  == IF admin[r].op = "create_agent" THEN NewId(r) ELSE admin[r].id
         ok  == IF admin[r].op = "create_agent" THEN 201 ELSE 200
     IN  IF FindById(id) = <<>>
           THEN Answer(r, 500, {})
           ELSE Answer(r, ok, {FindById(id)[1]})
  /\ UNCHANGED <<collection, agent_name, exec_vars, wf_vars, conc>>

\* update_agent: existing = collection.find_one({"_id": ObjectId(agent_id)})
\* and the test of update_data
update_agent_find(r) ==
  /\ admin[r].op = "update_agent" /\ admin[r].at = "Start"
  /\ LET found == FindById(admin[r].id)
         u     == admin[r].update[1]
     IN  IF found = <<>>
           THEN Answer(r, 404, {})
         ELSE IF u.name = <<>> /\ u.endpoint = <<>>
           THEN Answer(r, 400, {})
         ELSE admin' = [admin EXCEPT ![r] =
                [@ EXCEPT !.existing = found,
                          !.at = IF u.name # <<>> /\ u.name[1] # found[1].name
                                   THEN "Conflict" ELSE "Update"]]
  /\ UNCHANGED <<collection, agent_name, exec_vars, wf_vars, conc>>

\* update_agent: name_conflict = collection.find_one({"name": update_data["name"]})
update_agent_conflict(r) ==
  /\ admin[r].op = "update_agent" /\ admin[r].at = "Conflict"
  /\ IF NameTaken(admin[r].update[1].name[1])
       THEN Answer(r, 400, {})
       ELSE admin' = [admin EXCEPT ![r].at = "Update"]
  /\ UNCHANGED <<collection, agent_name, exec_vars, wf_vars, conc>>

\* update_agent: collection.update_one({"_id": ...}, {"$set": update_data})
update_agent_update(r) ==
  /\ admin[r].op = "update_agent" /\ admin[r].at = "Update"
  /\ LET u == admin[r].update[1]
     IN  collection' =
           {IF a._id = admin[r].id
              THEN [a EXCEPT !.name = IF u.name = <<>> THEN @ ELSE u.name[1],
                             !.endpoint = IF u.endpoint = <<>> THEN @
                                          ELSE u.endpoint[1]]
              ELSE a : a \in collection}
  /\ admin' = [admin EXCEPT ![r].at = "Fetch"]
  /\ UNCHANGED <<agent_name, exec_vars, wf_vars, conc>>

\* delete_agent: existing = collection.find_one({"_id": ObjectId(agent_id)})
delete_agent_find(r) ==
  /\ admin[r].op = "delete_agent" /\ admin[r].at = "Start"
  /\ IF FindById(admin[r].id) = <<>>
       THEN Answer(r, 404, {})
       ELSE admin' = [admin EXCEPT ![r].at = "Delete"]
  /\ UNCHANGED <<collection, agent_name, exec_vars, wf_vars, conc>>

\* delete_agent: result = collection.delete_one({"_id": ObjectId(agent_id)})
\* and the test of result.deleted_count
delete_agent_delete(r) ==
  /\ admin[r].op = "delete_agent" /\ admin[r].at = "Delete"
  /\ collection' = {a \in collection : a._id # admin[r].id}
  /\ IF FindById(admin[r].id) # <<>>
       THEN Answer(r, 200, {})
       ELSE Answer(r, 500, {})
  /\ UNCHANGED <<agent_name, exec_vars, wf_vars, conc>>

NextAdmin ==
  \E r \in AdminCallers :
    \/ get_all_agents(r)
    \/ get_agent(r)
    \/ create_agent_find(r)
    \/ create_agent_insert(r)
    \/ agent_fetch(r)
    \/ update_agent_find(r)
    \/ update_agent_conflict(r)
    \/ update_agent_update(r)
    \/ delete_agent_find(r)
    \/ delete_agent_delete(r)

SpecAdmin ==
  InitAdmin /\ [][NextAdmin]_vars


\* C26: after any admin create_agent, update_agent and delete_agent
\* requests, interleaved or not, no two agents of the registry have the
\* same name
C26_NamesUnique ==
  \A a \in collection : \A b \in collection : a.name = b.name => a = b

\* a step of a request whose token is not the valid one leaves the registry
\* as it is
WrongTokenWritesNothing ==
  \A r \in AdminCallers :
    (admin[r].token # VALID_TOKEN /\ admin'[r] # admin[r])
      => collection' = collection

\* C27: an admin request that lists, reads, creates, updates or deletes
\* agents with a bearer token other than the valid one is rejected (401 or
\* 403), returns no agent data and leaves the registry unchanged
C27_WrongTokenRejected ==
  /\ [](\A r \in AdminCallers :
          (admin[r].at = "Done" /\ admin[r].token # VALID_TOKEN)
            => (admin[r].resp.status \in {401, 403} /\ admin[r].resp.data = {}))
  /\ [][WrongTokenWritesNothing]_vars

====
